---- MODULE Spec2Model ----
(***************************************************************************)
(* State-machine model of the iterative synthesis-and-verification loop of *)
(* code_evolution.py (CodeEvolutionHandler), with the error tracking of    *)
(* static_analysis.py (EnhancedErrorHandler).                              *)
(*                                                                         *)
(* Texts are modelled as sequences of words (strings).  A generated        *)
(* candidate is a record [owner, content]: content is the word standing    *)
(* for its source text, owner = <<requirement, attempt>> names the         *)
(* generation call that produced it (requirement 0 is the combination      *)
(* pass; owner <<-1, -1>> is used for "no such value").                     *)
(***************************************************************************)
EXTENDS Integers, Sequences, FiniteSets, TLC

\* ------------------------------------------------------------------ bounds
MaxReqs == 2        \* longest requirement list tried
MaxAttempts == 2    \* largest max_attempts argument tried
MaxFaults == 2      \* most kinds of collaborator behaviour besides success in one run
HistorySize == 2    \* history_size of the handler that runs process_with_reflection
MaxHistory == 3     \* largest history_size tried in the add_attempt specification
MaxRecorded == 5    \* most add_attempt calls in the add_attempt specification
MaxCalls == 3       \* most direct sandbox calls in the sandbox specification
MaxRuns == 2        \* most direct execute_code calls in the execution specification
MaxRetries == 3     \* max_attempts in the retry specification: parameters can rise
MaxTuned == 10      \* most enhance_error calls in the parameter specification
MaxWords == 2       \* longest error message, in words, in the normalization specification
MaxLines == 3       \* most lines of one fenced block in the extraction specification
MaxBlocks == 2      \* most fenced blocks of one response in the extraction specification
MaxEnhanced == 3    \* most direct enhance_error calls in the enhancer specification
MaxAnalyzed == 3    \* most direct calls in the analysis specification
MaxLoops == 2       \* loops sharing one handler in the sharing specification
MaxShared == 4      \* most installer runs and enhance_error calls in the sharing specification

\* ------------------------------------------------------- program constants
CombineMaxAttempts == 5     \* _combine_code(max_attempts=5)

VARIABLES
    \* arguments of process_with_reflection / the constructor
    code_requirements, max_attempts, history_size,
    \* what the external collaborators (generation model, analyzers, pip, the
    \* executed process) can do in this run besides plain success
    faults,
    \* CodeEvolutionHandler / EnhancedErrorHandler fields
    history, installed_packages, error_count, parameters,
    \* EnhancedErrorHandler.static_analysis_results: the findings retained by
    \* the last analysis that completed
    static_analysis_results,
    \* the loops that share one handler: where each is inside a handler call,
    \* and what it has read there
    loops,
    \* whether the handler's sandbox directory (project_dir, venv_path) exists
    project_dir,
    \* Executor.installed_packages, and whether the Executor's venv exists
    executor_installed_packages, executor_venv,
    \* the direct execute_code calls whose temporary file still exists
    temp_files,
    \* locals of process_with_reflection
    pc, requirement_index, attempt, code, stdout, combined_code,
    requirement_success, exc, result,
    \* locals of _combine_code
    c_attempt, c_code, c_stdout,
    \* observation of the run (not program state)
    trace, attempts_made, gen_calls, combine_input, installer_calls, recorded,
    \* for each block of combined_code, the requirement whose loop appended it
    accepted_for,
    \* for each ErrorCount key, the kinds of failure counted under it since
    \* the last reset_tracking
    counted_by,
    options_sent,     \* per requirement, the options of its generation calls, in order
    \* for the requirement whose loop ran last: the prompts of its generation
    \* calls, and for each of its failed attempts the key of the exception
    \* caught and ErrorCount as the failure left it
    prompts_sent, failed_as,
    \* add_attempt specification: every entry recorded so far, in order
    log,
    \* sandbox specification: the direct calls made so far, with their results
    calls

inputs   == <<code_requirements, max_attempts, history_size, faults>>
fields   == <<history, installed_packages, error_count, parameters>>
locals   == <<pc, requirement_index, attempt, code, stdout, combined_code,
              requirement_success, exc, result>>
locals_but_pc == <<requirement_index, attempt, code, stdout, combined_code,
                   requirement_success, exc, result>>
clocals  == <<c_attempt, c_code, c_stdout>>
watched  == <<trace, attempts_made, gen_calls, combine_input, installer_calls, recorded,
              accepted_for>>
observed == <<watched, counted_by, options_sent, prompts_sent, failed_as>>
sandbox  == <<project_dir, executor_installed_packages, executor_venv, temp_files>>
direct   == <<log, calls>>
vars     == <<inputs, fields, static_analysis_results, sandbox, locals, clocals, observed, direct,
              loops>>

\* ------------------------------------------------------------------ values
ReqKinds == {"valid", "blank", "nonstr"}
Packages == {"numpy", "requests"}
Contents == {"src", "src_np"}

NoOwner == <<-1, -1>>

\* the loops sharing a handler, and a loop that is in no handler call
Loops == 1..MaxLoops
Idle == [pc |-> "idle", requirements |-> {}, seen |-> {}, read |-> 0, alone |-> TRUE]
Unbound == [owner |-> NoOwner, content |-> "unbound"]
NoOutput == [owner |-> NoOwner, from |-> "none"]
NoExc == [type |-> "none", msg |-> <<>>]
\* static_analysis_results = None (static_analysis.py line 26)
NoResults == [set |-> FALSE, pylint |-> {}, bandit |-> 0]
\* static_analysis_results as lines 97-101 assign it: the pylint messages (by
\* their types) and the number of bandit issues
Results(pylint, bandit) == [set |-> TRUE, pylint |-> pylint, bandit |-> bandit]
DefaultParameters == [temperature |-> 10, top_p |-> 90, top_k |-> 50]

RECURSIVE SeqsUpTo(_, _)
SeqsUpTo(S, n) ==
    IF n = 0 THEN {<<>>}
    ELSE LET shorter == SeqsUpTo(S, n - 1)
         IN shorter \cup {Append(s, x) : s \in {t \in shorter : Len(t) = n - 1}, x \in S}

Min(a, b) == IF a < b THEN a ELSE b
Last(s) == s[Len(s)]

\* ------------------------------------------------- EnhancedErrorHandler
DigitWords == {"0", "1", "2", "3", "4", "5", "6", "7", "8", "9", "10", "11", "12"}
NumWord(n) == IF n = 0 THEN "0" ELSE
              <<"1", "2", "3", "4", "5", "6", "7", "8", "9", "10", "11", "12">>[n]
LineWords == {"line", "line:", "lines"}
Lower(w) == IF w = "WARNING" THEN "warning" ELSE w

FilterWords(ws) == SelectSeq(ws, LAMBDA w : w \notin DigitWords /\ w \notin LineWords)
LowerWords(ws) == [i \in 1..Len(ws) |-> Lower(ws[i])]

\* _normalize_error: lower-case, drop the words that are all digits or start
\* with "line", prefix the error type.
normalize_error(error_type, error_msg) == <<error_type, FilterWords(LowerWords(error_msg))>>

Count(ec, key) == IF key \in DOMAIN ec THEN ec[key] ELSE 0
MaxCount(ec) == IF DOMAIN ec = {} THEN 0
                ELSE CHOOSE m \in {ec[k] : k \in DOMAIN ec} : \A k \in DOMAIN ec : ec[k] <= m
Total(ec) == LET RECURSIVE Sum(_)
                 Sum(D) == IF D = {} THEN 0
                           ELSE LET k == CHOOSE x \in D : TRUE IN ec[k] + Sum(D \ {k})
             IN Sum(DOMAIN ec)

\* A faulty variant of the tracking part: a key is counted the first time only.
enhance_count_once(ec, error) ==
    LET key == normalize_error(error.type, error.msg)
    IN [k \in DOMAIN ec \cup {key} |-> IF k = key THEN 1 ELSE ec[k]]

\* A faulty variant of the tracking part: every known key is counted up.
enhance_count_all(ec, error) ==
    LET key == normalize_error(error.type, error.msg)
    IN [k \in DOMAIN ec \cup {key} |-> Count(ec, k) + 1]

\* enhance_error, the tracking part: error_count[key] = error_count.get(key, 0) + 1
enhance_count(ec, error) ==
    LET key == normalize_error(error.type, error.msg)
    IN [k \in DOMAIN ec \cup {key} |-> IF k = key THEN Count(ec, key) + 1 ELSE ec[k]]

\* A faulty variant of the returned text: the header is decided on the count
\* before the increment.
enhance_text_late(ec, error, source) ==
    LET key == normalize_error(error.type, error.msg)
        n == Count(ec, key)
    IN (IF n > 1 THEN <<"WARNING", NumWord(n + 1), "times", "fix">> \o error.msg ELSE <<>>)
       \o <<source.content>>

\* enhance_error, the returned text: the annotated source, preceded by the
\* recurrence header when the count after the increment exceeds 1.
enhance_text(ec, error, source) ==
    LET key == normalize_error(error.type, error.msg)
        n == Count(ec, key) + 1
    IN (IF n > 1 THEN <<"WARNING", NumWord(n), "times", "fix">> \o error.msg ELSE <<>>)
       \o <<source.content>>

\* A faulty variant of reset_tracking: the counts are kept.
reset_tracking_keeps == error_count

reset_tracking == <<>>

Exc(type, msg) == [type |-> type, msg |-> msg]

\* the ErrorCount key of an exception (lines 127-131)
Key(error) == normalize_error(error.type, error.msg)

\* counted_by once enhance_error has counted error for a failure of this kind
Counted(cb, error, kind) ==
    [k \in DOMAIN cb \cup {Key(error)} |->
        IF k = Key(error) THEN (IF k \in DOMAIN cb THEN cb[k] ELSE {}) \cup {kind}
        ELSE cb[k]]

\* ------------------------------------------------- CodeEvolutionHandler
\* A faulty variant of reset_parameters: the parameters stay as they are.
reset_parameters_keeps == parameters

\* Lines 657-663: the parameters are set back to the defaults.
reset_parameters == DefaultParameters

\* the ceilings of lines 560-562 (temperature x10, top_p x100)
Ceilings == [temperature |-> 20, top_p |-> 98, top_k |-> 100]

\* A faulty variant of get_next_parameters: top_k is not capped.
get_next_parameters_uncapped(params, ec) ==
    LET m == MaxCount(ec)
    IN IF DOMAIN ec = {} \/ m <= 1 THEN params
       ELSE [temperature |-> Min(20, 10 + 2 * (m - 1)),
             top_p |-> Min(98, 90 + (m - 1)),
             top_k |-> 50 + m * 10]

\* A faulty variant of get_next_parameters: a count of 2 is not yet enough.
get_next_parameters_slow(params, ec) ==
    LET m == MaxCount(ec)
    IN IF DOMAIN ec = {} \/ m <= 2 THEN params
       ELSE [temperature |-> Min(20, 10 + 2 * (m - 1)),
             top_p |-> Min(98, 90 + (m - 1)),
             top_k |-> Min(50 + m * 10, 100)]

\* Lines 546-568: nothing is changed while no count exceeds 1; otherwise the
\* three fields are set from the highest count, each under its ceiling.
get_next_parameters(params, ec) ==
    LET m == MaxCount(ec)
    IN IF DOMAIN ec = {} \/ m <= 1 THEN params
       ELSE [temperature |-> Min(20, 10 + 2 * (m - 1)),
             top_p |-> Min(98, 90 + (m - 1)),
             top_k |-> Min(50 + m * 10, 100)]

\* A faulty variant of add_attempt: nothing is recorded.
add_attempt_drops(h, entry, size) == h

\* A faulty variant of add_attempt: a plain list, nothing is ever evicted.
add_attempt_unbounded(h, entry, size) == Append(h, entry)

\* A faulty variant of add_attempt: the entry is appended twice.
add_attempt_twice(h, entry, size) ==
    IF size = 0 THEN <<>>
    ELSE LET once == IF Len(h) < size THEN Append(h, entry) ELSE Append(Tail(h), entry)
         IN IF Len(once) < size THEN Append(once, entry) ELSE Append(Tail(once), entry)

\* history is a deque(maxlen=history_size): append evicts the oldest when full.
add_attempt(h, entry, size) ==
    IF size = 0 THEN <<>>
    ELSE IF Len(h) < size THEN Append(h, entry)
    ELSE Append(Tail(h), entry)

\* A faulty variant of build_chat_prompt: the previous attempt is shown on
\* the first attempt too.
build_chat_prompt_always(att, h) ==
    [previous |-> IF h # <<>> THEN <<Last(h)>> ELSE <<>>, fenced |-> TRUE]

\* build_chat_prompt (lines 607-655) with the context added at lines 697-724:
\* after the first attempt, and when history is not empty, the prompt shows
\* history[-1] (its code, error text and stdout); every prompt ends with the
\* instruction to enclose the code in ```python ``` tags.
build_chat_prompt(att, h) ==
    [previous |-> IF att > 0 /\ h # <<>> THEN <<Last(h)>> ELSE <<>>, fenced |-> TRUE]

\* AttemptHistory(code=, error=, timestamp=, stdout=) of lines 590-595: the
\* fields that are not passed keep their default, None (lines 24-27).
Attempt(c, err, out, who) ==
    [code |-> c, error |-> err, stdout |-> out, owner |-> who, diff_from_previous |-> "None"]

\* extract_requirements: the third-party modules the source imports.
extract_requirements(source) == IF source.content = "src_np" THEN {"numpy"} ELSE {}

PipOutcomes == {"ok", "nonzero_pip", "exception_pip"}
PipFaults == PipOutcomes \ {"ok"}

\* A faulty variant of install_requirements: a successful install is not
\* recorded in installed_packages.
install_requirements_forgets(requirements, installed, pip) ==
    IF requirements = {} THEN
         [ret |-> 0, out |-> "No requirements to install", err |-> <<>>,
          installed |-> installed, invoked |-> 0]
    ELSE IF requirements \ installed = {} THEN
         [ret |-> 0, out |-> "All packages already installed", err |-> <<>>,
          installed |-> installed, invoked |-> 0]
    ELSE [ret |-> IF pip = "ok" THEN 0 ELSE 1, out |-> "pip stdout", err |-> <<>>,
          installed |-> installed, invoked |-> 1]

\* A faulty variant of install_requirements: the installed set is made to
\* follow the request, so a request for nothing empties it.
install_requirements_syncs(requirements, installed, pip) ==
    IF requirements = {} THEN
         [ret |-> 0, out |-> "No requirements to install", err |-> <<>>,
          installed |-> {}, invoked |-> 0]
    ELSE IF requirements \ installed = {} THEN
         [ret |-> 0, out |-> "All packages already installed", err |-> <<>>,
          installed |-> installed, invoked |-> 0]
    ELSE [ret |-> IF pip = "ok" THEN 0 ELSE 1, out |-> "pip stdout",
          err |-> IF pip = "ok" THEN <<>> ELSE <<"piperr">>,
          installed |-> IF pip = "ok" THEN installed \cup requirements ELSE installed,
          invoked |-> 1]

\* A faulty variant of install_requirements: the requested names are recorded
\* before the installer's exit status is looked at.
install_requirements_eager(requirements, installed, pip) ==
    IF requirements = {} THEN
         [ret |-> 0, out |-> "No requirements to install", err |-> <<>>,
          installed |-> installed, invoked |-> 0]
    ELSE IF requirements \ installed = {} THEN
         [ret |-> 0, out |-> "All packages already installed", err |-> <<>>,
          installed |-> installed, invoked |-> 0]
    ELSE [ret |-> IF pip = "ok" THEN 0 ELSE 1, out |-> "pip stdout",
          err |-> IF pip = "ok" THEN <<>> ELSE <<"piperr">>,
          installed |-> installed \cup requirements, invoked |-> 1]

\* install_requirements: ret is the returned status, invoked the number of
\* times the installer (pip install -v ...) was run.
install_requirements(requirements, installed, pip) ==
    LET new_requirements == requirements \ installed
    IN IF requirements = {} THEN
            [ret |-> 0, out |-> "No requirements to install", err |-> <<>>,
             installed |-> installed, invoked |-> 0]
       ELSE IF new_requirements = {} THEN
            [ret |-> 0, out |-> "All packages already installed", err |-> <<>>,
             installed |-> installed, invoked |-> 0]
       ELSE IF pip = "ok" THEN
            [ret |-> 0, out |-> "pip stdout", err |-> <<>>,
             installed |-> installed \cup new_requirements, invoked |-> 1]
       ELSE IF pip = "nonzero_pip" THEN
            [ret |-> 1, out |-> "pip stdout", err |-> <<"piperr">>,
             installed |-> installed, invoked |-> 1]
       ELSE [ret |-> 1, out |-> "", err |-> <<"pipexc">>,
             installed |-> installed, invoked |-> 1]

\* Executor.install_requirements: the same filter, one pip run, no pip upgrade.
Executor_install_requirements(requirements, installed, pip) ==
    LET new_requirements == requirements \ installed
    IN IF requirements = {} THEN
            [ret |-> 0, out |-> "No requirements to install", err |-> <<>>,
             installed |-> installed, invoked |-> 0]
       ELSE IF new_requirements = {} THEN
            [ret |-> 0, out |-> "All packages already installed", err |-> <<>>,
             installed |-> installed, invoked |-> 0]
       ELSE IF pip = "ok" THEN
            [ret |-> 0, out |-> "pip stdout", err |-> <<>>,
             installed |-> installed \cup new_requirements, invoked |-> 1]
       ELSE IF pip = "nonzero_pip" THEN
            [ret |-> 1, out |-> "pip stdout", err |-> <<"piperr">>,
             installed |-> installed, invoked |-> 1]
       ELSE [ret |-> 1, out |-> "", err |-> <<"pipexc">>,
             installed |-> installed, invoked |-> 1]

ExecOutcomes == {"compile", "nonzero", "timeout", "exception", "ok"}
ExecFaults == ExecOutcomes \ {"ok"}

\* "write": writing the code into the temporary file raises (line 501)
ExecSteps == ExecOutcomes \cup {"write"}

\* the exception each failing step of execute_code hands to enhance_error
ExecError(outcome) ==
    IF outcome = "compile" THEN Exc("SyntaxError", <<"invalid", "syntax">>)
    ELSE IF outcome = "write" THEN Exc("UnicodeEncodeError", <<"codec", "cannot", "encode">>)
    ELSE IF outcome = "nonzero" THEN Exc("RuntimeError", <<"stderr">>)
    ELSE IF outcome = "timeout" THEN Exc("TimeoutError", <<"took", "too", "long">>)
    ELSE Exc("OSError", <<"oserror">>)

\* A faulty variant of execute_code: the temporary file is created before the
\* compile check.
execute_code_file_first(ec, source, outcome) ==
    LET e == ExecError(outcome)
    IN [ret |-> IF outcome = "ok" THEN 0 ELSE 1,
        err |-> IF outcome = "ok" THEN <<>> ELSE enhance_text(ec, e, source),
        ec |-> IF outcome = "ok" THEN ec ELSE enhance_count(ec, e),
        created |-> TRUE,
        spawned |-> outcome \in {"nonzero", "timeout", "ok"},
        left |-> outcome = "write"]

\* execute_code: every failure is routed through enhance_error.  created: the
\* temporary file was created (line 496); spawned: the process was run (line
\* 512); left: the file exists when the call returns.  temp_file_path is
\* assigned (line 502) only after the write of line 501, and the finally
\* clause (lines 539-544) removes the file only when temp_file_path is set;
\* os.unlink is taken to succeed.
execute_code(ec, source, outcome) ==
    LET e == ExecError(outcome)
        created == outcome # "compile"
        temp_file_path == created /\ outcome # "write"
    IN [ret |-> IF outcome = "ok" THEN 0 ELSE 1,
        err |-> IF outcome = "ok" THEN <<>> ELSE enhance_text(ec, e, source),
        ec |-> IF outcome = "ok" THEN ec ELSE enhance_count(ec, e),
        created |-> created,
        spawned |-> outcome \in {"nonzero", "timeout", "ok"},
        left |-> created /\ ~temp_file_path]

\* the exception each failing step of Executor.execute_code hands to enhance_error
ExecutorError(outcome) ==
    IF outcome = "timeout" THEN Exc("TimeoutError", <<"timed", "out">>)
    ELSE ExecError(outcome)

\* Executor.execute_code: temp_file is assigned (line 243) before the write of
\* line 244, so the finally clause (lines 289-296) finds the file whenever it
\* was created.
Executor_execute_code(ec, source, outcome) ==
    LET e == ExecutorError(outcome)
        created == outcome # "compile"
        temp_file == created
    IN [ret |-> IF outcome = "ok" THEN 0 ELSE 1,
        err |-> IF outcome = "ok" THEN <<>> ELSE enhance_text(ec, e, source),
        ec |-> IF outcome = "ok" THEN ec ELSE enhance_count(ec, e),
        created |-> created,
        spawned |-> outcome \in {"nonzero", "timeout", "ok"},
        left |-> created /\ ~temp_file]

\* ------------------------------------------- process_with_reflection
ReqLists == SeqsUpTo(ReqKinds, MaxReqs)

FaultKinds == {"imports", "raise", "empty", "main_only", "blocking", "nonzero_pip",
               "exception_pip", "compile", "nonzero", "timeout", "exception"}

\* the source texts the generation model returns in this run
GenContents == {"src"} \cup (IF "imports" \in faults THEN {"src_np"} ELSE {})

\* The state after CodeEvolutionHandler.__init__ (lines 30-37), before any call.
Constructed ==
    /\ history = <<>>
    /\ project_dir = TRUE
    /\ executor_installed_packages = {}
    /\ executor_venv = TRUE
    /\ temp_files = {}
    /\ log = <<>>
    /\ calls = <<>>
    /\ installed_packages = {}
    /\ error_count = <<>>
    /\ static_analysis_results = NoResults
    /\ parameters = DefaultParameters
    /\ requirement_index = 0
    /\ attempt = 0
    /\ code = Unbound
    /\ stdout = NoOutput
    /\ combined_code = <<>>
    /\ requirement_success = FALSE
    /\ exc = NoExc
    /\ result = "running"
    /\ c_attempt = 0
    /\ c_code = Unbound
    /\ c_stdout = NoOutput
    /\ trace = <<>>
    /\ gen_calls = 0
    /\ combine_input = <<>>
    /\ installer_calls = 0
    /\ recorded = 0
    /\ accepted_for = <<>>
    /\ counted_by = <<>>

Init ==
    /\ code_requirements \in ReqLists
    /\ max_attempts \in 0..MaxAttempts
    /\ history_size = HistorySize
    /\ faults \in {F \in SUBSET FaultKinds : Cardinality(F) <= MaxFaults}
    /\ attempts_made = [i \in 1..Len(code_requirements) |-> 0]
    /\ options_sent = [i \in 1..Len(code_requirements) |-> <<>>]
    /\ prompts_sent = <<>>
    /\ failed_as = <<>>
    /\ pc = "call"
    /\ Constructed
    /\ loops = [t \in Loops |-> Idle]

Here == <<requirement_index, attempt>>

\* a returned status, as the trace shows it
Status(ret) == IF ret = 0 THEN "zero" ELSE "nonzero"

\* the kind of failure of the attempt in progress: the failing stage, and for
\* execute_code the way the execution failed
Kind == IF Last(trace)[1] = "execute" THEN Last(trace)[2] ELSE Last(trace)[1]

\* Faulty variants of the last-attempt test: one iteration too many, and a
\* loop that gives up after its first failure.
LastAttempt_Late(a, budget) == a = budget
LastAttempt_Always(a, budget) == TRUE

\* Line 796 (and line 293): the test for the last attempt of a loop.
LastAttempt(a, budget) == a = budget - 1

\* Lines 675-679: the empty list is rejected with ValueError, outside the try.
Call ==
    /\ pc = "call"
    /\ IF code_requirements = <<>>
       THEN /\ pc' = "done"
            /\ result' = "ValueError"
            /\ UNCHANGED <<requirement_index, combined_code>>
       ELSE /\ pc' = "req_start"
            /\ requirement_index' = 1
            /\ combined_code' = <<>>
            /\ UNCHANGED result
    /\ UNCHANGED <<inputs, sandbox, direct, fields, attempt, code, stdout, requirement_success, exc,
                   clocals, observed>>
    /\ UNCHANGED static_analysis_results
    /\ UNCHANGED loops

\* Lines 681-689: the head of the requirement loop.  An element that is not a
\* non-blank string raises ValueError inside the try, which line 816 turns
\* into a None result.
ReqStart ==
    /\ pc = "req_start"
    /\ IF requirement_index > Len(code_requirements)
       THEN /\ pc' = "combine_call"
            /\ UNCHANGED <<result, requirement_success, error_count, parameters, attempt,
                         counted_by>>
       ELSE IF code_requirements[requirement_index] # "valid"
       THEN /\ pc' = "done"
            /\ result' = "None"
            /\ UNCHANGED <<requirement_success, error_count, parameters, attempt, counted_by>>
       ELSE /\ requirement_success' = FALSE
            /\ error_count' = reset_tracking
            /\ counted_by' = <<>>
            /\ parameters' = reset_parameters
            /\ attempt' = 0
            /\ pc' = IF max_attempts = 0 THEN "req_end" ELSE "generate"
            /\ UNCHANGED result
    /\ UNCHANGED <<inputs, sandbox, direct, history, installed_packages, requirement_index, code, stdout,
                   combined_code, exc, clocals, watched>>
    /\ UNCHANGED options_sent
    /\ prompts_sent' = <<>>
    /\ failed_as' = <<>>
    /\ UNCHANGED static_analysis_results
    /\ UNCHANGED loops

GenFaults == {"raise", "empty"}

\* Lines 690-745: get_next_parameters, the prompt, the generation call,
\* extract_code and clean_main_block.
Generate ==
    /\ pc = "generate"
    /\ parameters' = get_next_parameters(parameters, error_count)
    /\ options_sent' = [options_sent EXCEPT ![requirement_index] = Append(@, parameters')]
    /\ prompts_sent' = Append(prompts_sent, build_chat_prompt(attempt, history))
    /\ UNCHANGED failed_as
    /\ gen_calls' = gen_calls + 1
    /\ attempts_made' = [attempts_made EXCEPT ![requirement_index] = @ + 1]
    /\ \E out \in GenContents \cup (GenFaults \cap faults) :
         IF out = "raise"
         THEN /\ exc' = Exc("RuntimeError", <<"invalid", "response">>)
              /\ pc' = "failed"
              /\ trace' = << <<"generate", out>> >>
              /\ UNCHANGED code
         ELSE IF out = "empty"
         THEN /\ code' = [owner |-> Here, content |-> ""]
              /\ exc' = Exc("ValueError", <<"generated", "code", "is", "empty">>)
              /\ pc' = "failed"
              /\ trace' = << <<"generate", out>> >>
         ELSE /\ code' = [owner |-> Here, content |-> out]
              /\ pc' = "analyze"
              /\ trace' = << <<"generate", "code">>, <<"clean", "code">> >>
              /\ UNCHANGED exc
    /\ UNCHANGED <<inputs, sandbox, direct, history, installed_packages, error_count, requirement_index,
                   attempt, stdout, combined_code, requirement_success, result, clocals,
                   combine_input, installer_calls, recorded, accepted_for, counted_by>>
    /\ UNCHANGED static_analysis_results
    /\ UNCHANGED loops

\* What analyze_code leaves in static_analysis_results: the results of this
\* text when the analysis completed (without findings, or with findings that
\* block), and what was there before when it returned the error dictionary.
Retained(before, out) ==
    IF out = "error" THEN before
    ELSE Results(IF out = "blocking" THEN {"error"} ELSE {}, 0)

\* A faulty variant of the blocking test: no analysis result stops an attempt.
Blocking_Never(analysis) == FALSE

\* the blocking test of lines 748-749 on the result of analyze_code
Blocking(analysis) == analysis = "blocking"

\* Lines 746-756: static analysis; a blocking result is enhanced and raised.
Analyze ==
    /\ pc = "analyze"
    /\ \E out \in {"clean", "error"} \cup ({"blocking"} \cap faults) :
         IF Blocking(out)
         THEN LET e == Exc("RuntimeError", <<"static", "analysis", "found", "issues">>)
              IN /\ error_count' = enhance_count(error_count, e)
                 /\ exc' = Exc("RuntimeError", enhance_text(error_count, e, code))
                 /\ pc' = "failed"
                 /\ trace' = Append(trace, <<"analyze", out>>)
                 /\ counted_by' = Counted(counted_by, e, "analyze")
         ELSE /\ pc' = "install"
              /\ trace' = Append(trace, <<"analyze", out>>)
              /\ UNCHANGED <<error_count, exc, counted_by>>
    /\ static_analysis_results' = Retained(static_analysis_results, Last(trace')[2])
    /\ UNCHANGED <<inputs, sandbox, direct, history, installed_packages, parameters, requirement_index,
                   attempt, code, stdout, combined_code, requirement_success, result,
                   clocals, attempts_made, gen_calls, combine_input, installer_calls,
                   recorded, accepted_for>>
    /\ UNCHANGED <<options_sent, prompts_sent, failed_as>>
    /\ UNCHANGED loops

\* Lines 758-768: extract_requirements and install_requirements.
Install ==
    /\ pc = "install"
    /\ \E pip \in {"ok"} \cup (PipFaults \cap faults) :
         LET r == install_requirements(extract_requirements(code), installed_packages, pip)
             e == Exc("RuntimeError", <<"requirements", "installation", "failed">> \o r.err)
         IN /\ installed_packages' = r.installed
            /\ installer_calls' = installer_calls + r.invoked
            /\ stdout' = [owner |-> Here, from |-> "install"]
            /\ IF r.ret # 0
               THEN /\ error_count' = enhance_count(error_count, e)
                    /\ exc' = Exc("RuntimeError", enhance_text(error_count, e, code))
                    /\ pc' = "failed"
                    /\ trace' = Append(trace, <<"install", Status(r.ret)>>)
                    /\ counted_by' = Counted(counted_by, e, "install")
               ELSE /\ pc' = "execute"
                    /\ trace' = Append(trace, <<"install", Status(r.ret)>>)
                    /\ UNCHANGED <<error_count, exc, counted_by>>
    /\ UNCHANGED <<inputs, sandbox, direct, history, parameters, requirement_index, attempt, code,
                   combined_code, requirement_success, result, clocals, attempts_made,
                   gen_calls, combine_input, recorded, accepted_for>>
    /\ UNCHANGED <<options_sent, prompts_sent, failed_as>>
    /\ UNCHANGED static_analysis_results
    /\ UNCHANGED loops

\* Lines 770-778: execute_code; a non-zero status is enhanced and raised.
Execute ==
    /\ pc = "execute"
    /\ \E out \in {"ok"} \cup (ExecFaults \cap faults) :
         LET r == execute_code(error_count, code, out)
             e == Exc("RuntimeError", <<"code", "execution", "failed">> \o r.err)
         IN /\ stdout' = [owner |-> Here, from |-> "execute"]
            /\ IF r.ret # 0
               THEN /\ error_count' = enhance_count(r.ec, e)
                    /\ exc' = Exc("RuntimeError", enhance_text(r.ec, e, code))
                    /\ pc' = "failed"
                    /\ trace' = Append(trace, <<"execute", out>>)
                    /\ counted_by' = Counted(Counted(counted_by, ExecError(out), out), e, out)
               ELSE /\ pc' = "success"
                    /\ trace' = Append(trace, <<"execute", Status(r.ret)>>)
                    /\ UNCHANGED <<error_count, exc, counted_by>>
    /\ UNCHANGED <<inputs, sandbox, direct, history, installed_packages, parameters, requirement_index,
                   attempt, code, combined_code, requirement_success, result, clocals,
                   attempts_made, gen_calls, combine_input, installer_calls, recorded, accepted_for>>
    /\ UNCHANGED <<options_sent, prompts_sent, failed_as>>
    /\ UNCHANGED static_analysis_results
    /\ UNCHANGED loops

\* A faulty variant of the success step without the break of line 783: the
\* loop goes on to the next attempt of the same requirement.
RecordSuccess_NoBreak ==
    /\ pc = "success"
    /\ history' = add_attempt(history, Attempt(code, "Success", stdout, Here), history_size)
    /\ recorded' = recorded + 1
    /\ combined_code' = Append(combined_code, code)
    /\ accepted_for' = Append(accepted_for, requirement_index)
    /\ requirement_success' = TRUE
    /\ IF LastAttempt(attempt, max_attempts)
       THEN pc' = "req_end" /\ UNCHANGED attempt
       ELSE pc' = "generate" /\ attempt' = attempt + 1
    /\ trace' = <<>>
    /\ UNCHANGED <<inputs, sandbox, direct, installed_packages, error_count, parameters,
                   requirement_index, code, stdout, exc, result, clocals, attempts_made,
                   gen_calls, combine_input, installer_calls, counted_by>>
    /\ UNCHANGED <<options_sent, prompts_sent, failed_as>>
    /\ UNCHANGED static_analysis_results
    /\ UNCHANGED loops

\* Lines 780-783.
RecordSuccess ==
    /\ pc = "success"
    /\ history' = add_attempt(history, Attempt(code, "Success", stdout, Here), history_size)
    /\ recorded' = recorded + 1
    /\ combined_code' = Append(combined_code, code)
    /\ accepted_for' = Append(accepted_for, requirement_index)
    /\ requirement_success' = TRUE
    /\ pc' = "req_end"
    /\ trace' = <<>>
    /\ UNCHANGED <<inputs, sandbox, direct, installed_packages, error_count, parameters, requirement_index,
                   attempt, code, stdout, exc, result, clocals, attempts_made,
                   gen_calls, combine_input, installer_calls, counted_by>>
    /\ UNCHANGED <<options_sent, prompts_sent, failed_as>>
    /\ UNCHANGED static_analysis_results
    /\ UNCHANGED loops

\* A faulty variant of the test: the name is taken to be assigned always.
Bound_Always(v) == TRUE

\* 'code' in locals(): code was assigned at some earlier point of this call
Bound(v) == v # Unbound

\* the requirement text, analysed when no code was ever assigned
Func == [owner |-> <<requirement_index, -1>>, content |-> "requirement"]

\* Lines 785-800: the failure handler, with forced acceptance on the last attempt.
RecordFailure ==
    /\ pc = "failed"
    /\ LET code_to_analyze == IF Bound(code) THEN code ELSE Func
           out == IF stdout # NoOutput THEN stdout ELSE NoOutput
       IN /\ error_count' = enhance_count(error_count, exc)
          /\ counted_by' = Counted(counted_by, exc, Kind)
          /\ history' = add_attempt(history,
                                    Attempt(code_to_analyze, "Failure", out, Here),
                                    history_size)
    /\ recorded' = recorded + 1
    /\ IF LastAttempt(attempt, max_attempts)
       THEN /\ pc' = "req_end"
            /\ IF Bound(code)
               THEN /\ combined_code' = Append(combined_code, code)
                    /\ accepted_for' = Append(accepted_for, requirement_index)
                    /\ requirement_success' = TRUE
               ELSE UNCHANGED <<combined_code, requirement_success, accepted_for>>
            /\ UNCHANGED attempt
       ELSE /\ pc' = "generate"
            /\ attempt' = attempt + 1
            /\ UNCHANGED <<combined_code, requirement_success, accepted_for>>
    /\ exc' = NoExc
    /\ trace' = <<>>
    /\ UNCHANGED <<inputs, sandbox, direct, installed_packages, parameters, requirement_index, code, stdout,
                   result, clocals, attempts_made, gen_calls, combine_input,
                   installer_calls>>
    /\ UNCHANGED <<options_sent, prompts_sent>>
    /\ failed_as' = Append(failed_as, [key |-> Key(exc), counts |-> error_count'])
    /\ UNCHANGED static_analysis_results
    /\ UNCHANGED loops

\* A faulty variant of the end of a requirement's loop without the return of
\* lines 802-803: an unresolved requirement is skipped.
ReqEnd_Skips ==
    /\ pc = "req_end"
    /\ pc' = "req_start"
    /\ requirement_index' = requirement_index + 1
    /\ UNCHANGED <<inputs, sandbox, direct, fields, attempt, code, stdout, combined_code,
                   requirement_success, exc, result, clocals, observed>>
    /\ UNCHANGED static_analysis_results
    /\ UNCHANGED loops

\* Lines 802-803 and the step to the next requirement.
ReqEnd ==
    /\ pc = "req_end"
    /\ IF ~requirement_success
       THEN /\ pc' = "done"
            /\ result' = "None"
            /\ UNCHANGED requirement_index
       ELSE /\ pc' = "req_start"
            /\ requirement_index' = requirement_index + 1
            /\ UNCHANGED result
    /\ UNCHANGED <<inputs, sandbox, direct, fields, attempt, code, stdout, combined_code,
                   requirement_success, exc, clocals, observed>>
    /\ UNCHANGED static_analysis_results
    /\ UNCHANGED loops

\* ------------------------------------------------------- _combine_code
CHere == <<0, c_attempt>>

\* the snippets handed to _combine_code, analysed when no combined code exists
CodeString == [owner |-> <<0, -1>>, content |-> "snippets"]

\* Line 806 and lines 176-204: the call, with fresh locals and reset tracking.
CombineCall ==
    /\ pc = "combine_call"
    /\ combine_input' = combined_code
    /\ error_count' = reset_tracking
    /\ counted_by' = <<>>
    /\ c_attempt' = 0
    /\ c_code' = Unbound
    /\ c_stdout' = NoOutput
    /\ pc' = "c_generate"
    /\ UNCHANGED <<inputs, sandbox, direct, history, installed_packages, parameters, requirement_index,
                   attempt, code, stdout, combined_code, requirement_success, exc, result,
                   trace, attempts_made, gen_calls, installer_calls, recorded, accepted_for>>
    /\ UNCHANGED <<options_sent, prompts_sent, failed_as>>
    /\ UNCHANGED static_analysis_results
    /\ UNCHANGED loops

\* Lines 204-261: the prompt, the generation call, extract_code, clean_main_block.
\* "main_only" is a response whose code is blank once the main block is removed.
CGenerate ==
    /\ pc = "c_generate"
    /\ gen_calls' = gen_calls + 1
    /\ \E out \in GenContents \cup ((GenFaults \cup {"main_only"}) \cap faults) :
         IF out = "raise"
         THEN /\ exc' = Exc("RuntimeError", <<"unexpected", "response">>)
              /\ pc' = "c_failed"
              /\ trace' = << <<"generate", out>> >>
              /\ UNCHANGED c_code
         ELSE IF out = "empty"
         THEN /\ c_code' = [owner |-> CHere, content |-> ""]
              /\ exc' = Exc("ValueError", <<"generated", "empty", "code">>)
              /\ pc' = "c_failed"
              /\ trace' = << <<"generate", out>> >>
         ELSE /\ c_code' = [owner |-> CHere, content |-> IF out = "main_only" THEN "" ELSE out]
              /\ pc' = "c_analyze"
              /\ trace' = << <<"generate", "code">>, <<"clean", "code">> >>
              /\ UNCHANGED exc
    /\ UNCHANGED <<inputs, sandbox, direct, fields, requirement_index, attempt, code, stdout, combined_code,
                   requirement_success, result, c_attempt, c_stdout, attempts_made,
                   combine_input, installer_calls, recorded, accepted_for, counted_by>>
    /\ UNCHANGED <<options_sent, prompts_sent, failed_as>>
    /\ UNCHANGED static_analysis_results
    /\ UNCHANGED loops

\* Lines 264-267.
CAnalyze ==
    /\ pc = "c_analyze"
    /\ \E out \in {"clean", "error"} \cup ({"blocking"} \cap faults) :
         IF Blocking(out)
         THEN /\ exc' = Exc("RuntimeError", <<"static", "analysis", "found", "issues">>)
              /\ pc' = "c_failed"
              /\ trace' = Append(trace, <<"analyze", out>>)
         ELSE /\ pc' = "c_install"
              /\ trace' = Append(trace, <<"analyze", out>>)
              /\ UNCHANGED exc
    /\ static_analysis_results' = Retained(static_analysis_results, Last(trace')[2])
    /\ UNCHANGED <<inputs, sandbox, direct, fields, requirement_index, attempt, code, stdout, combined_code,
                   requirement_success, result, clocals, attempts_made, gen_calls,
                   combine_input, installer_calls, recorded, accepted_for, counted_by>>
    /\ UNCHANGED <<options_sent, prompts_sent, failed_as>>
    /\ UNCHANGED loops

\* Lines 269-272.
CInstall ==
    /\ pc = "c_install"
    /\ \E pip \in {"ok"} \cup (PipFaults \cap faults) :
         LET r == install_requirements(extract_requirements(c_code), installed_packages, pip)
         IN /\ installed_packages' = r.installed
            /\ installer_calls' = installer_calls + r.invoked
            /\ c_stdout' = [owner |-> CHere, from |-> "install"]
            /\ IF r.ret # 0
               THEN /\ exc' = Exc("RuntimeError",
                                  <<"requirements", "installation", "failed">> \o r.err)
                    /\ pc' = "c_failed"
                    /\ trace' = Append(trace, <<"install", Status(r.ret)>>)
               ELSE /\ pc' = "c_execute"
                    /\ trace' = Append(trace, <<"install", Status(r.ret)>>)
                    /\ UNCHANGED exc
    /\ UNCHANGED <<inputs, sandbox, direct, history, error_count, parameters, requirement_index, attempt,
                   code, stdout, combined_code, requirement_success, result, c_attempt,
                   c_code, attempts_made, gen_calls, combine_input, recorded, accepted_for, counted_by>>
    /\ UNCHANGED <<options_sent, prompts_sent, failed_as>>
    /\ UNCHANGED static_analysis_results
    /\ UNCHANGED loops

\* Lines 274-276.
CExecute ==
    /\ pc = "c_execute"
    /\ \E out \in {"ok"} \cup (ExecFaults \cap faults) :
         LET r == execute_code(error_count, c_code, out)
         IN /\ c_stdout' = [owner |-> CHere, from |-> "execute"]
            /\ error_count' = r.ec
            /\ IF r.ret # 0
               THEN /\ exc' = Exc("RuntimeError", <<"code", "execution", "failed">> \o r.err)
                    /\ pc' = "c_failed"
                    /\ trace' = Append(trace, <<"execute", out>>)
                    /\ counted_by' = Counted(counted_by, ExecError(out), out)
               ELSE /\ pc' = "c_success"
                    /\ trace' = Append(trace, <<"execute", Status(r.ret)>>)
                    /\ UNCHANGED <<exc, counted_by>>
    /\ UNCHANGED <<inputs, sandbox, direct, history, installed_packages, parameters, requirement_index,
                   attempt, code, stdout, combined_code, requirement_success, result,
                   c_attempt, c_code, attempts_made, gen_calls, combine_input,
                   installer_calls, recorded, accepted_for>>
    /\ UNCHANGED <<options_sent, prompts_sent, failed_as>>
    /\ UNCHANGED static_analysis_results
    /\ UNCHANGED loops

\* Lines 278-279: record the success and return the combined code.
CSuccess ==
    /\ pc = "c_success"
    /\ history' = add_attempt(history, Attempt(c_code, "Success", c_stdout, CHere),
                              history_size)
    /\ recorded' = recorded + 1
    /\ pc' = "finish"
    /\ trace' = <<>>
    /\ UNCHANGED <<inputs, sandbox, direct, installed_packages, error_count, parameters, locals_but_pc,
                   clocals, attempts_made, gen_calls, combine_input,
                   installer_calls, accepted_for, counted_by>>
    /\ UNCHANGED <<options_sent, prompts_sent, failed_as>>
    /\ UNCHANGED static_analysis_results
    /\ UNCHANGED loops

\* Lines 281-296: the failure handler of the combination loop.
CFailure ==
    /\ pc = "c_failed"
    /\ LET code_to_analyze == IF Bound(c_code) THEN c_code ELSE CodeString
           ec == enhance_count(error_count, exc)
       IN /\ error_count' = ec
          /\ counted_by' = Counted(counted_by, exc, Kind)
          /\ history' = add_attempt(history,
                                    Attempt(code_to_analyze, "Failure", c_stdout, CHere),
                                    history_size)
          /\ parameters' = get_next_parameters(parameters, ec)
    /\ recorded' = recorded + 1
    /\ exc' = NoExc
    /\ IF LastAttempt(c_attempt, CombineMaxAttempts)
       THEN /\ pc' = "finish_none"
            /\ UNCHANGED c_attempt
       ELSE /\ pc' = "c_generate"
            /\ c_attempt' = c_attempt + 1
    /\ trace' = <<>>
    /\ UNCHANGED <<inputs, sandbox, direct, installed_packages, requirement_index, attempt, code, stdout,
                   combined_code, requirement_success, result, c_code, c_stdout, attempts_made, gen_calls, combine_input, installer_calls, accepted_for>>
    /\ UNCHANGED <<options_sent, prompts_sent, failed_as>>
    /\ UNCHANGED static_analysis_results
    /\ UNCHANGED loops

\* final extract_code (line 810) on text that holds no fence: the text, trimmed
final_extract(source) == source.content

\* A faulty variant of the result: the last combined code is returned even
\* when every combination attempt failed.
Finish_ReturnsLast ==
    /\ pc \in {"finish", "finish_none"}
    /\ pc' = "done"
    /\ result' = IF ~Bound(c_code) \/ c_code.content = "" THEN "None" ELSE "code"
    /\ UNCHANGED <<inputs, sandbox, direct, fields, requirement_index, attempt, code, stdout,
                   combined_code, requirement_success, exc, clocals, observed>>
    /\ UNCHANGED static_analysis_results
    /\ UNCHANGED loops

\* Lines 807-818: the result of the call.
Finish ==
    /\ pc \in {"finish", "finish_none"}
    /\ pc' = "done"
    /\ result' = IF pc = "finish_none" \/ c_code.content = "" \/ final_extract(c_code) = ""
                 THEN "None" ELSE "code"
    /\ UNCHANGED <<inputs, sandbox, direct, fields, requirement_index, attempt, code, stdout, combined_code,
                   requirement_success, exc, clocals, observed>>
    /\ UNCHANGED static_analysis_results
    /\ UNCHANGED loops

Next ==
    \/ Call \/ ReqStart \/ Generate \/ Analyze \/ Install \/ Execute
    \/ RecordSuccess \/ RecordFailure \/ ReqEnd
    \/ CombineCall \/ CGenerate \/ CAnalyze \/ CInstall \/ CExecute
    \/ CSuccess \/ CFailure \/ Finish

Spec == Init /\ [][Next]_vars

\* ------------------------------------------- add_attempt, called directly
Entries == {Attempt([owner |-> NoOwner, content |-> c], e, NoOutput, NoOwner) :
              c \in Contents, e \in {"Success", "Failure"}}

InitHistory ==
    /\ code_requirements = <<>>
    /\ max_attempts = 0
    /\ history_size \in 0..MaxHistory
    /\ faults = {}
    /\ attempts_made = <<>>
    /\ options_sent = <<>>
    /\ prompts_sent = <<>>
    /\ failed_as = <<>>
    /\ pc = "direct"
    /\ Constructed
    /\ loops = [t \in Loops |-> Idle]

\* Lines 588-595, for any code and error text.
AddAttempt ==
    /\ pc = "direct"
    /\ Len(log) < MaxRecorded
    /\ \E entry \in Entries :
         /\ history' = add_attempt(history, entry, history_size)
         /\ log' = Append(log, entry)
    /\ recorded' = recorded + 1
    /\ UNCHANGED <<inputs, installed_packages, error_count, parameters, sandbox, locals,
                   clocals, trace, attempts_made, gen_calls, combine_input,
                   installer_calls, calls, accepted_for, counted_by>>
    /\ UNCHANGED <<options_sent, prompts_sent, failed_as>>
    /\ UNCHANGED static_analysis_results
    /\ UNCHANGED loops

NextHistory == AddAttempt

SpecHistory == InitHistory /\ [][NextHistory]_vars

\* ------------------------------------------- the sandbox, called directly
InitSandbox ==
    /\ code_requirements = <<>>
    /\ max_attempts = 0
    /\ history_size = HistorySize
    /\ faults = FaultKinds
    /\ attempts_made = <<>>
    /\ options_sent = <<>>
    /\ prompts_sent = <<>>
    /\ failed_as = <<>>
    /\ pc = "direct"
    /\ Constructed
    /\ loops = [t \in Loops |-> Idle]

\* one direct call: its arguments, what it returned and what it did; pip is
\* the installer's behaviour when the installer was run, env whether the
\* environment exists after the call
Called(op, requirements, before, r, pip, env) ==
    [op |-> op, requirements |-> requirements, ret |-> r.ret, invoked |-> r.invoked,
     before |-> before, after |-> r.installed, err |-> r.err,
     pip |-> IF r.invoked = 1 THEN pip ELSE "none", env |-> env]

\* CodeEvolutionHandler.install_requirements (lines 443-483) on the handler's
\* own installed set.  After cleanup() venv_path is None, and building the pip
\* path (line 455, outside the try) raises TypeError: ret = 2 stands for that.
InstallRequirements ==
    /\ pc = "direct"
    /\ Len(calls) < MaxCalls
    /\ \E requirements \in SUBSET Packages, pip \in PipOutcomes :
         LET r == install_requirements(requirements, installed_packages, pip)
             raised == [ret |-> 2, installed |-> installed_packages, invoked |-> 0,
                        err |-> <<"TypeError">>]
             got == IF ~project_dir /\ requirements \ installed_packages # {}
                    THEN raised ELSE r
         IN /\ installed_packages' = got.installed
            /\ installer_calls' = installer_calls + got.invoked
            /\ calls' = Append(calls, Called("install", requirements, installed_packages,
                                             got, pip, project_dir))
    /\ UNCHANGED <<inputs, history, error_count, parameters, sandbox, locals, clocals,
                   trace, attempts_made, gen_calls, combine_input, recorded, log, accepted_for, counted_by>>
    /\ UNCHANGED <<options_sent, prompts_sent, failed_as>>
    /\ UNCHANGED static_analysis_results
    /\ UNCHANGED loops

\* Executor.install_requirements on the Executor's own installed set.  Once
\* the venv is removed the pip path does not exist and running it raises.
ExecutorInstallRequirements ==
    /\ pc = "direct"
    /\ Len(calls) < MaxCalls
    /\ \E requirements \in SUBSET Packages,
          pip \in IF executor_venv THEN PipOutcomes ELSE {"exception_pip"} :
         LET r == Executor_install_requirements(requirements, executor_installed_packages, pip)
         IN /\ executor_installed_packages' = r.installed
            /\ installer_calls' = installer_calls + r.invoked
            /\ calls' = Append(calls, Called("executor_install", requirements,
                                             executor_installed_packages, r, pip,
                                             executor_venv))
    /\ UNCHANGED <<inputs, fields, project_dir, executor_venv, temp_files, locals, clocals, trace,
                   attempts_made, gen_calls, combine_input, recorded, log, accepted_for, counted_by>>
    /\ UNCHANGED <<options_sent, prompts_sent, failed_as>>
    /\ UNCHANGED static_analysis_results
    /\ UNCHANGED loops

\* CodeEvolutionHandler.cleanup (lines 154-164); rmtree may fail, and then
\* nothing is cleared.
Cleanup ==
    /\ pc = "direct"
    /\ Len(calls) < MaxCalls
    /\ \E rmtree_ok \in BOOLEAN :
         LET cleared == project_dir /\ rmtree_ok
             r == [ret |-> 0, invoked |-> 0, err |-> <<>>,
                   installed |-> IF cleared THEN {} ELSE installed_packages]
         IN /\ project_dir' = IF cleared THEN FALSE ELSE project_dir
            /\ installed_packages' = r.installed
            /\ calls' = Append(calls, Called("cleanup", {}, installed_packages, r, "none",
                                             project_dir /\ ~cleared))
    /\ UNCHANGED <<inputs, history, error_count, parameters, executor_installed_packages,
                   executor_venv, temp_files, locals, clocals, observed, log>>
    /\ UNCHANGED static_analysis_results
    /\ UNCHANGED loops

\* Executor.cleanup (lines 321-329): the venv is removed and the installed set
\* cleared; when rmtree raises nothing is cleared, and the call still returns.
ExecutorCleanup ==
    /\ pc = "direct"
    /\ Len(calls) < MaxCalls
    /\ \E rmtree_ok \in BOOLEAN :
         LET cleared == executor_venv /\ rmtree_ok
             r == [ret |-> 0, invoked |-> 0, err |-> <<>>,
                   installed |-> IF cleared THEN {} ELSE executor_installed_packages]
         IN /\ executor_venv' = IF cleared THEN FALSE ELSE executor_venv
            /\ executor_installed_packages' = r.installed
            /\ calls' = Append(calls, Called("executor_cleanup", {},
                                             executor_installed_packages, r, "none",
                                             executor_venv /\ ~cleared))
    /\ UNCHANGED <<inputs, fields, project_dir, temp_files, locals, clocals, observed, log>>
    /\ UNCHANGED static_analysis_results
    /\ UNCHANGED loops

NextSandbox ==
    InstallRequirements \/ ExecutorInstallRequirements \/ Cleanup \/ ExecutorCleanup

SpecSandbox == InitSandbox /\ [][NextSandbox]_vars

\* ------------------------------------------- execute_code, called directly
Sources == {[owner |-> NoOwner, content |-> c] : c \in Contents}

\* one direct call of execute_code: its arguments, what it returned and did
Ran(op, source, outcome, r, ec, installed) ==
    [op |-> op, source |-> source, outcome |-> outcome, ret |-> r.ret, err |-> r.err,
     created |-> r.created, spawned |-> r.spawned,
     ec_before |-> ec, ec_after |-> r.ec,
     installed_before |-> installed, installed_after |-> installed_packages',
     files_before |-> temp_files]

\* CodeEvolutionHandler.execute_code (lines 485-544) on any code.
ExecuteCode ==
    /\ pc = "direct"
    /\ Len(calls) < MaxRuns
    /\ \E source \in Sources, outcome \in ExecSteps :
         LET r == execute_code(error_count, source, outcome)
         IN /\ error_count' = r.ec
            /\ temp_files' = IF r.left THEN temp_files \cup {Len(calls) + 1} ELSE temp_files
            /\ UNCHANGED installed_packages
            /\ calls' = Append(calls, Ran("execute", source, outcome, r, error_count,
                                          installed_packages))
    /\ UNCHANGED <<inputs, history, parameters, project_dir, executor_installed_packages,
                   executor_venv, locals, clocals, observed, log>>
    /\ UNCHANGED static_analysis_results
    /\ UNCHANGED loops

\* Executor.execute_code (lines 219-296) on any code, with the same error handler.
ExecutorExecuteCode ==
    /\ pc = "direct"
    /\ Len(calls) < MaxRuns
    /\ \E source \in Sources, outcome \in ExecSteps :
         LET r == Executor_execute_code(error_count, source, outcome)
         IN /\ error_count' = r.ec
            /\ temp_files' = IF r.left THEN temp_files \cup {Len(calls) + 1} ELSE temp_files
            /\ UNCHANGED installed_packages
            /\ calls' = Append(calls, Ran("executor_execute", source, outcome, r,
                                          error_count, installed_packages))
    /\ UNCHANGED <<inputs, history, parameters, project_dir, executor_installed_packages,
                   executor_venv, locals, clocals, observed, log>>
    /\ UNCHANGED static_analysis_results
    /\ UNCHANGED loops

NextExecute == ExecuteCode \/ ExecutorExecuteCode

SpecExecute == InitSandbox /\ [][NextExecute]_vars

\* --------------------------------- process_with_reflection with three tries
\* max_attempts = 3 is the least budget under which get_next_parameters sees a
\* count above 1 at the start of an attempt; one collaborator fault per run.
InitRetry ==
    /\ code_requirements \in ReqLists
    /\ max_attempts = MaxRetries
    /\ history_size = HistorySize
    /\ faults \in {F \in SUBSET FaultKinds : Cardinality(F) <= 1}
    /\ attempts_made = [i \in 1..Len(code_requirements) |-> 0]
    /\ options_sent = [i \in 1..Len(code_requirements) |-> <<>>]
    /\ prompts_sent = <<>>
    /\ failed_as = <<>>
    /\ pc = "call"
    /\ Constructed
    /\ loops = [t \in Loops |-> Idle]

SpecRetry == InitRetry /\ [][Next]_vars

\* ------------------------------------------- enhance_error, called directly
\* the first two differ only in a line number, the third only in its type
Errors == {Exc("SyntaxError", <<"invalid", "syntax", "line", "3">>),
           Exc("SyntaxError", <<"invalid", "syntax", "line", "7">>),
           Exc("RuntimeError", <<"invalid", "syntax">>),
           Exc("TimeoutError", <<"took", "too", "long">>)}

\* EnhancedErrorHandler.enhance_error (lines 114-221) on any error and code.
EnhanceError ==
    /\ pc = "direct"
    /\ Len(calls) < MaxEnhanced
    /\ \E error \in Errors, source \in Sources :
         /\ error_count' = enhance_count(error_count, error)
         /\ calls' = Append(calls, [op |-> "enhance", error |-> error, source |-> source,
                                    text |-> enhance_text(error_count, error, source),
                                    ec_before |-> error_count,
                                    ec_after |-> error_count'])
    /\ UNCHANGED <<inputs, history, installed_packages, parameters, sandbox, locals,
                   clocals, observed, log>>
    /\ UNCHANGED static_analysis_results
    /\ UNCHANGED loops

NextEnhance == EnhanceError

SpecEnhance == InitSandbox /\ [][NextEnhance]_vars

\* ------------------------- get_next_parameters between enhance_error calls
\* One requirement loop seen from the parameters: errors are counted, nothing
\* resets the counts, and get_next_parameters is called at any moment.
Recur ==
    /\ pc = "direct"
    /\ Total(error_count) < MaxTuned
    /\ \E error \in Errors : error_count' = enhance_count(error_count, error)
    /\ UNCHANGED <<inputs, history, installed_packages, parameters, sandbox, locals,
                   clocals, observed, direct>>
    /\ UNCHANGED static_analysis_results
    /\ UNCHANGED loops

\* CodeEvolutionHandler.get_next_parameters (lines 546-568); calls holds the
\* latest call only.
GetNextParameters ==
    /\ pc = "direct"
    /\ parameters' = get_next_parameters(parameters, error_count)
    /\ calls' = << [op |-> "get_next_parameters", m |-> MaxCount(error_count),
                    before |-> parameters, after |-> parameters'] >>
    /\ UNCHANGED <<inputs, history, installed_packages, error_count, sandbox, locals,
                   clocals, observed, log>>
    /\ UNCHANGED static_analysis_results
    /\ UNCHANGED loops

NextTune == Recur \/ GetNextParameters

SpecTune == InitSandbox /\ [][NextTune]_vars

\* --------------------------------------- _normalize_error, called directly
\* Words of error messages: numbers alone and followed by a comma, as a
\* traceback prints them ("line 3, in <module>"), and a plain word.
Words == {"line", "3", "7", "3,", "7,", "division"}
Messages == SeqsUpTo(Words, MaxWords)
ErrorTypes == {"RuntimeError", "TimeoutError"}

\* EnhancedErrorHandler._normalize_error (lines 228-233) on two messages of one
\* error type; one pair is normalized in a run.
NormalizeError ==
    /\ pc = "direct"
    /\ calls = <<>>
    /\ \E t \in ErrorTypes, a \in Messages, b \in Messages :
         calls' = << [op |-> "normalize", type |-> t, a |-> a, b |-> b,
                      sig_a |-> normalize_error(t, a), sig_b |-> normalize_error(t, b)] >>
    /\ UNCHANGED <<inputs, fields, sandbox, locals, clocals, observed, log>>
    /\ UNCHANGED static_analysis_results
    /\ UNCHANGED loops

NextNormalize == NormalizeError

SpecNormalize == InitSandbox /\ [][NextNormalize]_vars

\* ------------------------------------------- extract_code, called directly
\* The lines of a fenced block: imports, a def line, and body lines.
ImportLines == {"import os", "import re"}
DefLines == {"def f():"}
BodyLines == {"    x += 1", "    return x"}
Lines == ImportLines \cup DefLines \cup BodyLines
Blocks == SeqsUpTo(Lines, MaxLines) \ {<<>>}
Texts == {"text", " text "}
Strip(text) == IF text = " text " THEN "text" ELSE text

\* the blocks tried after the first block of a response
MoreBlocks == {<<"import os", "def f():", "    return x">>, <<"    x += 1">>}

\* a response: its fenced blocks in order, and its text when it has none
Responses == {[text |-> t, blocks |-> <<>>] : t \in Texts}
             \cup {[text |-> "text", blocks |-> <<b>> \o more] :
                       b \in Blocks, more \in SeqsUpTo(MoreBlocks, MaxBlocks - 1)}

\* Lines 341-364, one block: import lines are collected, a def line opens a
\* function that takes every following line up to the next def, the other
\* lines before the first def are kept as one piece after the functions.
RECURSIVE ScanBlock(_, _, _, _, _)
ScanBlock(lines, current, functions, others, imports) ==
    IF lines = <<>>
    THEN [pieces |-> (IF current # <<>> THEN Append(functions, current) ELSE functions)
                     \o (IF others # <<>> THEN <<others>> ELSE <<>>),
          imports |-> imports]
    ELSE LET line == Head(lines)
             rest == Tail(lines)
         IN IF line \in ImportLines
            THEN ScanBlock(rest, current, functions, others, imports \cup {line})
            ELSE IF line \in DefLines
            THEN ScanBlock(rest, <<line>>,
                           IF current # <<>> THEN Append(functions, current) ELSE functions,
                           others, imports)
            ELSE IF current # <<>>
            THEN ScanBlock(rest, Append(current, line), functions, others, imports)
            ELSE ScanBlock(rest, current, functions, Append(others, line), imports)

RECURSIVE Flatten(_)
Flatten(pieces) == IF pieces = <<>> THEN <<>> ELSE Head(pieces) \o Flatten(Tail(pieces))

\* Lines 380-381: itertools.groupby keeps one line of every run of equal lines.
RECURSIVE Squeeze(_)
Squeeze(lines) ==
    IF Len(lines) <= 1 THEN lines
    ELSE IF lines[1] = lines[2] THEN Squeeze(Tail(lines))
    ELSE <<lines[1]>> \o Squeeze(Tail(lines))

\* sorted(import_lines)
SortedImports(imports) ==
    (IF "import os" \in imports THEN <<"import os">> ELSE <<>>)
    \o (IF "import re" \in imports THEN <<"import re">> ELSE <<>>)

\* extract_code (lines 298-384): the lines of the returned text.
extract_code(response) ==
    IF response.blocks = <<>> THEN <<Strip(response.text)>>
    ELSE LET scanned == [i \in 1..Len(response.blocks) |->
                            ScanBlock(response.blocks[i], <<>>, <<>>, <<>>, {})]
             imports == UNION {scanned[i].imports : i \in 1..Len(scanned)}
             pieces == Flatten([i \in 1..Len(scanned) |-> scanned[i].pieces])
         IN Squeeze((IF imports # {} THEN SortedImports(imports) \o <<"">> ELSE <<>>)
                    \o Flatten(pieces))

\* extract_code on one response
ExtractCode ==
    /\ pc = "direct"
    /\ calls = <<>>
    /\ \E response \in Responses :
         calls' = << [op |-> "extract_code", response |-> response,
                      ret |-> extract_code(response)] >>
    /\ UNCHANGED <<inputs, fields, sandbox, locals, clocals, observed, log>>
    /\ UNCHANGED static_analysis_results
    /\ UNCHANGED loops

NextExtract == ExtractCode

SpecExtract == InitSandbox /\ [][NextExtract]_vars

\* ------------------------------------ analyze_code and the gate on its result
\* The pylint message types, and the candidate texts analysed: what a lint
\* pass and a security pass over each text would report.
Severities == {"fatal", "error", "warning", "refactor", "convention"}
Candidates == {"clean", "style", "faulty", "unsafe"}
FindingsIn(source) ==
    [pylint |-> CASE source = "style" -> {"convention"}
                  [] source = "faulty" -> {"error"}
                  [] OTHER -> {},
     bandit |-> IF source = "unsafe" THEN 1 ELSE 0]

\* pylint.lint.Run([path]) (line 83) is the library's: it ends in sys.exit,
\* raises, returns the Run object, or returns the list of messages the rest
\* of the handler reads.
AnalyzeOutcomes == {"raises", "exits", "object", "list"}

\* the {'error': ...} dictionary of line 112
ErrorResult == [error |-> TRUE, pylint |-> {}, bandit |-> 0]

\* analyze_code (lines 71-112) on one text, static_analysis_results being
\* before: the analyzers run, in order, with the temporary files each found
\* in place; what is returned or raised; static_analysis_results afterwards.
analyze_code(source, outcome, before) ==
    LET written == {source}
        lint == [tool |-> "pylint", files |-> written]
        unlinked == written \ {source}
        unlink == [tool |-> "os.unlink", files |-> unlinked]
        security == [tool |-> "bandit", files |-> unlinked]
        bandit_issues == IF source \in unlinked THEN FindingsIn(source).bandit ELSE 0
        results == Results(FindingsIn(source).pylint, bandit_issues)
    IN CASE outcome = "exits" ->
              [events |-> <<lint, unlink>>, raised |-> "SystemExit",
               ret |-> ErrorResult, retained |-> before]
         [] outcome = "raises" ->
              [events |-> <<lint, unlink>>, raised |-> "None",
               ret |-> ErrorResult, retained |-> before]
         [] outcome = "object" ->
              [events |-> <<lint, unlink, security>>, raised |-> "None",
               ret |-> ErrorResult, retained |-> before]
         [] OTHER ->
              [events |-> <<lint, unlink, security>>, raised |-> "None",
               ret |-> [error |-> FALSE, pylint |-> results.pylint, bandit |-> results.bandit],
               retained |-> results]

\* A faulty variant of the gate: the error dictionary blocks the attempt.
Gate_FailClosed(results) == results.error \/ results.pylint # {} \/ results.bandit > 0

\* Lines 747-749: analysis_results.get('pylint_errors') or
\* analysis_results.get('bandit_issues'); a missing key, and an empty list,
\* are not true.
Gate(results) == results.pylint # {} \/ results.bandit > 0

\* Lines 157-192 of enhance_error: the retained findings written into the
\* text as comments (pylint messages of type error or warning, and every
\* bandit issue), when static_analysis_results is set.
annotations(results) ==
    IF results.set
    THEN [pylint |-> results.pylint \cap {"error", "warning"}, bandit |-> results.bandit]
    ELSE [pylint |-> {}, bandit |-> 0]

\* the text whose analysis assigned the static_analysis_results now held
RECURSIVE RetainedFrom(_)
RetainedFrom(log_) ==
    IF log_ = <<>> THEN "none"
    ELSE IF Last(log_).op = "analyze_code" /\ Last(log_).outcome = "list"
         THEN Last(log_).source
         ELSE RetainedFrom(SubSeq(log_, 1, Len(log_) - 1))

\* Lines 746-757 for one candidate: the analysis, and where the attempt goes.
AnalyzeCandidate ==
    /\ pc = "direct"
    /\ Len(calls) < MaxAnalyzed
    /\ \E source \in Candidates, outcome \in AnalyzeOutcomes :
         LET r == analyze_code(source, outcome, static_analysis_results)
         IN /\ static_analysis_results' = r.retained
            /\ calls' = Append(calls,
                   [op |-> "analyze_code", source |-> source, outcome |-> outcome,
                    events |-> r.events, ret |-> r.ret,
                    before |-> static_analysis_results, after |-> r.retained,
                    next |-> IF r.raised = "SystemExit" THEN "SystemExit"
                             ELSE IF Gate(r.ret) THEN "blocked"
                             ELSE "install"])
    /\ UNCHANGED <<inputs, fields, sandbox, locals, clocals, observed, log>>
    /\ UNCHANGED loops

\* the text given to the latest analyze_code call
RECURSIVE LastAnalyzed(_)
LastAnalyzed(log_) ==
    IF log_ = <<>> THEN "none"
    ELSE IF Last(log_).op = "analyze_code" THEN Last(log_).source
         ELSE LastAnalyzed(SubSeq(log_, 1, Len(log_) - 1))

\* enhance_error on the failure of an attempt (lines 750, 762, 772, 787),
\* called on the text the attempt has analysed: the count, and the findings
\* written into the text.
EnhanceAnnotated ==
    /\ pc = "direct"
    /\ Len(calls) < MaxAnalyzed
    /\ \E source \in Candidates \cap {LastAnalyzed(calls)} :
         LET e == Exc("RuntimeError", <<"code", "execution", "failed">>)
         IN /\ error_count' = enhance_count(error_count, e)
            /\ calls' = Append(calls,
                   [op |-> "enhance_error", source |-> source,
                    annotated |-> annotations(static_analysis_results),
                    from |-> RetainedFrom(calls)])
    /\ UNCHANGED <<inputs, history, installed_packages, parameters, sandbox, locals,
                   clocals, observed, log>>
    /\ UNCHANGED static_analysis_results
    /\ UNCHANGED loops

\* reset_tracking (lines 223-226) between two requirements
ResetTracking ==
    /\ pc = "direct"
    /\ Len(calls) < MaxAnalyzed
    /\ error_count' = reset_tracking
    /\ calls' = Append(calls, [op |-> "reset_tracking", source |-> "none"])
    /\ UNCHANGED <<inputs, history, installed_packages, parameters, sandbox, locals,
                   clocals, observed, log>>
    /\ UNCHANGED static_analysis_results
    /\ UNCHANGED loops

NextGate == AnalyzeCandidate \/ EnhanceAnnotated \/ ResetTracking

SpecGate == InitSandbox /\ [][NextGate]_vars

\* ----------------------------- one handler shared by loops that run together
\* Each loop calls install_requirements and enhance_error on the same object;
\* a call is several steps, and the steps of different loops interleave.
\* calls holds every installer run and every enhance_error call, in order,
\* each with whether the call it belongs to had the handler to itself.

\* A faulty variant of the update of line 476: the set is replaced.
update_replaces(installed, new_requirements) == new_requirements

\* self.installed_packages.update(new_requirements) (line 476)
update(installed, new_requirements) == installed \cup new_requirements

\* the one error every loop reports here
SharedError == Exc("RuntimeError", <<"code", "execution", "failed">>)

\* no other loop is inside a handler call
Alone(t) == \A u \in Loops \ {t} : loops[u].pc = "idle"

\* install_requirements, lines 446-453: the filter against installed_packages.
InstallCheck ==
    /\ pc = "direct"
    /\ Len(calls) < MaxShared
    /\ \E t \in Loops, requirements \in {{p} : p \in Packages} :
         LET new_requirements == requirements \ installed_packages
         IN /\ loops[t].pc = "idle"
            /\ loops' = [loops EXCEPT ![t] =
                            IF new_requirements = {} THEN Idle
                            ELSE [pc |-> "pip", requirements |-> requirements,
                                  seen |-> installed_packages, read |-> 0,
                                  alone |-> Alone(t)]]
    /\ UNCHANGED <<inputs, fields, static_analysis_results, sandbox, locals, clocals,
                   observed, direct>>

\* install_requirements, lines 458-483: the installer is run on what the
\* filter left, and the names are added to the set when it returned 0.
InstallRun ==
    /\ pc = "direct"
    /\ \E t \in Loops, pip \in PipOutcomes :
         LET r == install_requirements(loops[t].requirements, loops[t].seen, pip)
         IN /\ loops[t].pc = "pip"
            /\ installed_packages' = update(installed_packages, r.installed \ loops[t].seen)
            /\ installer_calls' = installer_calls + r.invoked
            /\ calls' = Append(calls, [op |-> "pip",
                                       packages |-> loops[t].requirements \ loops[t].seen,
                                       ret |-> r.ret,
                                       alone |-> loops[t].alone /\ Alone(t)])
            /\ loops' = [loops EXCEPT ![t] = Idle]
    /\ UNCHANGED <<inputs, history, error_count, parameters, static_analysis_results,
                   sandbox, locals, clocals, log>>
    /\ UNCHANGED <<trace, attempts_made, gen_calls, combine_input, recorded, accepted_for,
                   counted_by, options_sent, prompts_sent, failed_as>>

\* enhance_error, line 132, right-hand side: self.error_count.get(error_key, 0)
EnhanceRead ==
    /\ pc = "direct"
    /\ Len(calls) < MaxShared
    /\ \E t \in Loops :
         /\ loops[t].pc = "idle"
         /\ calls' = Append(calls, [op |-> "enhance_error", packages |-> {},
                                    ret |-> 0, alone |-> Alone(t)])
         /\ loops' = [loops EXCEPT ![t] =
                         [pc |-> "counted", requirements |-> {}, seen |-> {},
                          read |-> Count(error_count, Key(SharedError)),
                          alone |-> Alone(t)]]
    /\ UNCHANGED <<inputs, fields, static_analysis_results, sandbox, locals, clocals,
                   observed, log>>

\* enhance_error, line 132, the store: error_count[error_key] = what was read + 1
EnhanceStore ==
    /\ pc = "direct"
    /\ \E t \in Loops :
         /\ loops[t].pc = "counted"
         /\ error_count' = [k \in DOMAIN error_count \cup {Key(SharedError)} |->
                               IF k = Key(SharedError) THEN loops[t].read + 1
                               ELSE error_count[k]]
         /\ loops' = [loops EXCEPT ![t] = Idle]
    /\ UNCHANGED <<inputs, history, installed_packages, parameters, static_analysis_results,
                   sandbox, locals, clocals, observed, direct>>

NextShared == InstallCheck \/ InstallRun \/ EnhanceRead \/ EnhanceStore

SpecShared == InitSandbox /\ [][NextShared]_vars

\* ================================================================ claims
ReqPcs == {"generate", "analyze", "install", "execute", "success", "failed", "req_end"}
CombinePcs == {"c_generate", "c_analyze", "c_install", "c_execute", "c_success",
               "c_failed", "finish", "finish_none"}
StageOrder == <<"generate", "clean", "analyze", "install", "execute">>
Passing == {"code", "clean", "error", "zero"}
AllPassed == Len(trace) = 5 /\ \A k \in 1..5 : trace[k][2] \in Passing
LastRecorded == Last(history)

\* the last attempt of the current requirement has just been recorded as a failure
Exhausted ==
    /\ pc = "req_end"
    /\ max_attempts > 0
    /\ LastRecorded.error = "Failure"
    /\ LastRecorded.owner = Here

\* C1 (as claimed): when every attempt of a requirement has failed, exactly
\* max_attempts attempts were made for it, the requirement is marked done and
\* the code last generated for it is the block appended to the combined code,
\* so the run does not return None at the end of that requirement's loop.
C1_ForcedAcceptance ==
    Exhausted =>
        /\ attempts_made[requirement_index] = max_attempts
        /\ requirement_success
        /\ Len(combined_code) = requirement_index
        /\ Last(combined_code) = code
        /\ code.owner[1] = requirement_index

RECURSIVE SumSeq(_)
SumSeq(q) == IF q = <<>> THEN 0 ELSE q[1] + SumSeq(Tail(q))

\* no requirement got more than max_attempts generation attempts, and the
\* combination pass made at most CombineMaxAttempts of the generation calls
AttemptsBounded ==
    /\ \A i \in DOMAIN attempts_made : attempts_made[i] <= max_attempts
    /\ gen_calls <= SumSeq(attempts_made) + CombineMaxAttempts
    /\ c_attempt < CombineMaxAttempts

\* C2 (as claimed): attempts per requirement are at most max_attempts, the
\* combination pass makes at most 5 attempts, and the call ends by returning
\* the final code or None.
C2_ReturnsCodeOrNone ==
    /\ AttemptsBounded
    /\ pc = "done" => result \in {"code", "None"}

\* progress of the call: every step of the program increases it
PcRank ==
    CASE pc = "call" -> 0 [] pc = "req_start" -> 1 [] pc = "generate" -> 2
      [] pc = "analyze" -> 3 [] pc = "install" -> 4 [] pc = "execute" -> 5
      [] pc = "success" -> 6 [] pc = "failed" -> 6 [] pc = "req_end" -> 7
      [] pc = "combine_call" -> 8 [] pc = "c_generate" -> 9 [] pc = "c_analyze" -> 10
      [] pc = "c_install" -> 11 [] pc = "c_execute" -> 12 [] pc = "c_success" -> 13
      [] pc = "c_failed" -> 13 [] pc = "finish" -> 14 [] pc = "finish_none" -> 14
      [] pc = "done" -> 15
Rank == 16 * (gen_calls + recorded + requirement_index) + PcRank
RankBound == 16 * (2 * (Len(code_requirements) * max_attempts + CombineMaxAttempts)
                   + Len(code_requirements) + 1) + 15

\* a step of the program can be taken from the current position
CanStep ==
    CASE pc = "call" -> ENABLED Call
      [] pc = "req_start" -> ENABLED ReqStart
      [] pc = "generate" -> ENABLED Generate
      [] pc = "analyze" -> ENABLED Analyze
      [] pc = "install" -> ENABLED Install
      [] pc = "execute" -> ENABLED Execute
      [] pc = "success" -> ENABLED RecordSuccess
      [] pc = "failed" -> ENABLED RecordFailure
      [] pc = "req_end" -> ENABLED ReqEnd
      [] pc = "combine_call" -> ENABLED CombineCall
      [] pc = "c_generate" -> ENABLED CGenerate
      [] pc = "c_analyze" -> ENABLED CAnalyze
      [] pc = "c_install" -> ENABLED CInstall
      [] pc = "c_execute" -> ENABLED CExecute
      [] pc = "c_success" -> ENABLED CSuccess
      [] pc = "c_failed" -> ENABLED CFailure
      [] pc \in {"finish", "finish_none"} -> ENABLED Finish
      [] OTHER -> FALSE

\* C2 (amended): the same bounds hold in every state; the call always ends: as
\* long as it has not ended a step can be taken, and every step increases a
\* bounded measure of progress; it ends by returning the final code or None,
\* except that an empty requirement list makes it raise ValueError.
C2_BoundedTermination ==
    /\ [](/\ AttemptsBounded
          /\ Rank <= RankBound
          /\ pc = "done" \/ CanStep
          /\ pc = "done" => \/ result \in {"code", "None"}
                            \/ result = "ValueError" /\ code_requirements = <<>>)
    /\ [][Rank' > Rank]_vars

C2_Witness ==
    /\ pc = "done"
    /\ result = "None"
    /\ max_attempts = MaxAttempts
    /\ \E i \in DOMAIN attempts_made : attempts_made[i] = max_attempts
    /\ gen_calls = SumSeq(attempts_made) + CombineMaxAttempts

\* C3: an attempt whose candidate is not blocked by analysis, whose install
\* returns 0 and whose execution returns 0 arrives at the success step and at
\* no failure step; the success step appends one Success attempt holding the
\* candidate to history, appends the candidate to the combined code and marks
\* the requirement done; the next step starts the next requirement, with no
\* further generation call for this one.
C3_SuccessPath ==
    /\ [](pc \in ReqPcs /\ AllPassed => pc = "success")
    /\ [](pc = "success" => AllPassed)
    /\ [][pc = "success" =>
            /\ recorded' = recorded + 1
            /\ Len(history') = Min(Len(history) + 1, history_size)
            /\ Last(history').error = "Success"
            /\ Last(history').code = code
            /\ SubSeq(history', 1, Len(history') - 1)
                 = SubSeq(history, Len(history) + 2 - Len(history'), Len(history))
            /\ combined_code' = Append(combined_code, code)
            /\ requirement_success'
            /\ pc' = "req_end"
            /\ attempts_made' = attempts_made]_vars
    /\ [][pc = "req_end" /\ requirement_success =>
            /\ pc' = "req_start"
            /\ requirement_index' = requirement_index + 1
            /\ gen_calls' = gen_calls]_vars

C3_Witness ==
    /\ pc = "req_end"
    /\ requirement_success
    /\ LastRecorded.error = "Success"
    /\ LastRecorded.code = code
    /\ LastRecorded.owner = <<requirement_index, 1>>
    /\ Len(history) = history_size

\* C4: in a requirement's attempt the stages run in the order generate, clean,
\* static-analyze, install, execute, each entered only after every earlier
\* stage passed; a blocking analysis or a non-zero install puts the attempt in
\* the failure handler with no later stage invoked.
C4_StageOrder ==
    pc \in ReqPcs =>
        /\ Len(trace) <= 5
        /\ \A k \in 1..Len(trace) : trace[k][1] = StageOrder[k]
        /\ \A k \in 1..(Len(trace) - 1) : trace[k][2] \in Passing
        /\ (trace # <<>> /\ Last(trace)[2] \notin Passing) => pc = "failed"
        /\ pc = "analyze" => Len(trace) = 2
        /\ pc = "install" => Len(trace) = 3
        /\ pc = "execute" => Len(trace) = 4

C4_Witness ==
    /\ pc = "failed"
    /\ Len(trace) = 4
    /\ trace[3] = <<"analyze", "clean">>
    /\ trace[4] = <<"install", "nonzero">>

\* C5: after attempt k of a requirement has failed at analysis, install or
\* execution (compile, runtime, timeout), with k < max_attempts - 1, attempt
\* k + 1 of the same requirement is started; the call has not returned.
C5_FailureRetries ==
    /\ [][(/\ pc = "failed"
           /\ attempt < max_attempts - 1
           /\ Last(trace)[1] \in {"analyze", "install", "execute"})
          => /\ pc' = "generate"
             /\ attempt' = attempt + 1
             /\ requirement_index' = requirement_index
             /\ result' = "running"]_vars
    /\ [](pc = "generate" => /\ ENABLED Generate
                             /\ attempt < max_attempts
                             /\ attempts_made[requirement_index] = attempt
                             /\ result = "running")
    /\ [][pc = "generate" => /\ attempts_made'[requirement_index] = attempt + 1
                             /\ code'.owner # code.owner => code'.owner = Here
                             /\ requirement_index' = requirement_index]_vars

C5_Witness ==
    /\ pc = "failed"
    /\ attempt = 1
    /\ Last(trace) = <<"execute", "nonzero">>
    /\ LastRecorded.owner = <<requirement_index, 0>>
    /\ LastRecorded.error = "Failure"
    /\ LastRecorded.stdout.from = "execute"

\* C6: the combination pass runs only once every requirement has contributed
\* its block; it makes at most 5 attempts; its success step is reached only by
\* an attempt whose code passed analysis, install and execution; the call
\* returns code only out of such an attempt, and returns None when the last
\* combination attempt failed.
C6_CombinationPass ==
    /\ pc \in CombinePcs =>
          /\ requirement_index = Len(code_requirements) + 1
          /\ Len(combine_input) = Len(code_requirements)
          /\ c_attempt < CombineMaxAttempts
    /\ pc = "c_success" => AllPassed /\ c_code.owner = CHere
    /\ pc = "finish" => LastRecorded = Attempt(c_code, "Success", c_stdout, CHere)
    /\ pc = "finish_none" =>
          LastRecorded.error = "Failure" /\ c_attempt = CombineMaxAttempts - 1
    /\ (pc = "done" /\ result = "code") =>
          /\ LastRecorded = Attempt(c_code, "Success", c_stdout, CHere)
          /\ c_stdout.from = "execute"
    /\ (pc = "done" /\ combine_input # <<>> /\ LastRecorded.error = "Failure") =>
          result = "None"

C6_Witness ==
    /\ pc = "done"
    /\ result = "code"
    /\ c_attempt = CombineMaxAttempts - 1
    /\ Len(combine_input) = MaxReqs

\* C7: requirements are handled one at a time in list order: a requirement has
\* attempts only once every earlier one has contributed its block, the blocks
\* of the combined code were appended by requirements 1, 2, ... in that order,
\* one each, and the text handed to the combination pass is that sequence
\* with one block for every requirement.
C7_InOrder ==
    /\ \A i \in DOMAIN attempts_made :
          attempts_made[i] > 0 => i <= requirement_index /\ Len(combined_code) >= i - 1
    /\ accepted_for = [k \in 1..Len(combined_code) |-> k]
    /\ Len(combined_code) <= requirement_index
    /\ pc \in CombinePcs \/ (pc = "done" /\ combine_input # <<>>) =>
          /\ combine_input = combined_code
          /\ Len(combine_input) = Len(code_requirements)

C7_Witness ==
    /\ pc = "c_generate"
    /\ Len(combine_input) = MaxReqs
    /\ combine_input[1].owner = <<1, 1>>
    /\ combine_input[2].owner = <<2, 0>>

Invalid == code_requirements = <<>> \/ \E i \in DOMAIN code_requirements :
                                          code_requirements[i] # "valid"

\* C9 (as claimed): for an empty requirement list, or one with an element that
\* is not a non-blank string, no generation attempt is ever made.
C9_RejectedBeforeWork == Invalid => gen_calls = 0

\* C8: with history_size N, after any sequence of add_attempt calls the
\* history holds at most N entries; it is the last min(recorded, N) recorded
\* entries in the order they were recorded, so once more than N were recorded
\* it holds exactly the N most recent.
C8_HistoryBound ==
    /\ Len(history) <= history_size
    /\ Len(log) = recorded
    /\ history = SubSeq(log, Len(log) - Min(Len(log), history_size) + 1, Len(log))
    /\ Len(log) > history_size => Len(history) = history_size

C8_Witness ==
    /\ history_size = 2
    /\ Len(log) = MaxRecorded
    /\ Len(history) = 2
    /\ history[1] # history[2]
    /\ history[1] = log[MaxRecorded - 1]
    /\ log[1] # log[MaxRecorded - 1]

Installs == {"install", "executor_install"}
Cleanups == {"cleanup", "executor_cleanup"}

\* C10 (as claimed): of two successive calls of install_requirements on the
\* same object with the same dependency set, the second returns 0, does not
\* run the installer and leaves the installed set alone, so the installer
\* runs at most once over the two.
C10_IdempotentInstall ==
    \A k \in 1..(Len(calls) - 1) :
        (/\ calls[k].op \in Installs
         /\ calls[k + 1].op = calls[k].op
         /\ calls[k + 1].requirements = calls[k].requirements)
        => /\ calls[k + 1].ret = 0
           /\ calls[k + 1].invoked = 0
           /\ calls[k + 1].after = calls[k + 1].before
           /\ calls[k].invoked + calls[k + 1].invoked <= 1

\* C10 (amended): once a call of install_requirements has returned 0, every
\* later call on the same object with the same dependency set, with no
\* cleanup in between, returns 0, does not run the installer and leaves the
\* installed set alone.
C10_IdempotentAfterSuccess ==
    \A k, l \in 1..Len(calls) :
        (/\ k < l
         /\ calls[k].op \in Installs
         /\ calls[l].op = calls[k].op
         /\ calls[l].requirements = calls[k].requirements
         /\ calls[k].ret = 0
         /\ \A j \in (k + 1)..(l - 1) : calls[j].op \notin Cleanups)
        => /\ calls[l].ret = 0
           /\ calls[l].invoked = 0
           /\ calls[l].after = calls[l].before

C10_Witness ==
    /\ Len(calls) = MaxCalls
    /\ calls[1].op = "install"
    /\ calls[1].requirements = {"numpy"}
    /\ calls[1].ret = 0
    /\ calls[1].invoked = 1
    /\ calls[2].op = "executor_install"
    /\ calls[3].op = "install"
    /\ calls[3].requirements = {"numpy"}
    /\ calls[3].invoked = 0
    /\ calls[3].ret = 0

\* C11: a call of install_requirements whose installer run fails (non-zero
\* exit, or an exception while running it) returns a non-zero status with the
\* diagnostic text and leaves the installed set as it was; the set changes
\* only in a call whose installer run exited with 0, and then by exactly the
\* requested names that were missing.
C11_InstallFailure ==
    \A k \in 1..Len(calls) :
        calls[k].op \in Installs =>
            /\ calls[k].pip \in PipFaults =>
                  /\ calls[k].ret # 0
                  /\ calls[k].err # <<>>
                  /\ calls[k].after = calls[k].before
            /\ calls[k].after # calls[k].before => calls[k].pip = "ok" /\ calls[k].ret = 0
            /\ calls[k].pip = "ok" =>
                  calls[k].after = calls[k].before \cup calls[k].requirements

C11_Witness ==
    /\ Len(calls) = 3
    /\ calls[1].op = "install" /\ calls[1].pip = "ok"
    /\ calls[1].after = {"numpy"}
    /\ calls[2].op = "install" /\ calls[2].pip = "exception_pip"
    /\ calls[2].requirements = {"numpy", "requests"}
    /\ calls[2].after = {"numpy"}
    /\ calls[3].op = "install" /\ calls[3].pip = "nonzero_pip"
    /\ calls[3].requirements = {"requests"}

\* C12: during a call of process_with_reflection no step removes a name from
\* the installed-package set: the set after a step contains the set before
\* it, and only the install steps change it.
C12_InstalledGrows ==
    [][/\ installed_packages \subseteq installed_packages'
       /\ installed_packages' # installed_packages => pc \in {"install", "c_install"}]_vars

C12_Witness ==
    /\ pc = "c_install"
    /\ installed_packages = {"numpy"}
    /\ extract_requirements(c_code) = {}
    /\ error_count = <<>>
    /\ Len(combine_input) = MaxReqs
    /\ combine_input[1].content = "src_np"
    /\ combine_input[2].content = "src"

\* C13 (as claimed): after a call of execute_code has returned, whatever its
\* outcome (success, non-zero exit, timeout, or a step raising after the
\* temporary file was created, the write of the code into it included), the
\* temporary file created for that call does not exist.
C13_TempFileRemoved == \A k \in 1..Len(calls) : k \notin temp_files

\* C14: a call of CodeEvolutionHandler.execute_code whose compile check fails
\* returns a non-zero status and the text enhance_error produced for the
\* compile error, counted once in ErrorCount; no temporary file was created,
\* no process was run and the installed-package set is as before.
C14_CompileShortCircuit ==
    \A k \in 1..Len(calls) :
        (calls[k].op = "execute" /\ calls[k].outcome = "compile") =>
            LET c == calls[k]
                e == Exc("SyntaxError", <<"invalid", "syntax">>)
            IN /\ c.ret # 0
               /\ c.err = enhance_text(c.ec_before, e, c.source)
               /\ c.ec_after = enhance_count(c.ec_before, e)
               /\ ~c.created
               /\ ~c.spawned
               /\ c.installed_after = c.installed_before
               /\ (k = Len(calls) => temp_files = c.files_before)

C14_Witness ==
    /\ Len(calls) = 2
    /\ calls[1].op = "execute" /\ calls[1].outcome = "compile"
    /\ calls[2].op = "execute" /\ calls[2].outcome = "compile"
    /\ calls[2].source = calls[1].source
    /\ calls[2].err[1] = "WARNING"
    /\ temp_files = {}

\* C15 (as claimed): an execution that exceeds the time budget makes the
\* attempt fail and is counted under a TimeoutError key, which is not the key
\* of a non-zero exit; no ErrorCount key has counted both a timeout and a
\* non-zero exit.
C15_TimeoutDistinctKey ==
    /\ (pc = "failed" /\ Last(trace) = <<"execute", "timeout">>) =>
          /\ Key(ExecError("timeout")) \in DOMAIN error_count
          /\ Key(ExecError("timeout"))[1] = "TimeoutError"
          /\ Key(ExecError("timeout")) # Key(ExecError("nonzero"))
    /\ \A k \in DOMAIN counted_by : ~({"timeout", "nonzero"} \subseteq counted_by[k])

\* C16 (as claimed): after any call of cleanup() has returned, the isolated
\* environment does not exist and the installed-package set is empty; every
\* call returns, also when there is no environment.
C16_Teardown ==
    \A k \in 1..Len(calls) :
        calls[k].op \in Cleanups =>
            /\ calls[k].ret = 0
            /\ ~calls[k].env
            /\ calls[k].after = {}

LoopPcs == {"generate", "analyze", "install", "execute", "success", "failed"}

\* C17: ErrorCount is empty when the first attempt of a requirement starts,
\* and a step inside a requirement's retry loop removes no key from it and
\* lowers no count.
C17_ErrorCountLifecycle ==
    /\ [](pc = "generate" /\ attempt = 0 => error_count = <<>>)
    /\ [][(pc \in LoopPcs) =>
            /\ requirement_index' = requirement_index
            /\ \A k \in DOMAIN error_count :
                  k \in DOMAIN error_count' /\ error_count[k] <= error_count'[k]
       ]_vars

C17_Witness ==
    /\ pc = "generate"
    /\ attempt = 0
    /\ requirement_index = 2
    /\ error_count = <<>>
    /\ Len(history) = 2
    /\ history[1].error = "Failure" /\ history[1].owner = <<1, 0>>
    /\ history[2].error = "Failure" /\ history[2].owner = <<1, 1>>

\* C18: a call of enhance_error counts the error's normalized key up by
\* exactly 1 and changes nothing else: the count of every other key, the
\* attempt history, the generation parameters, the installed-package sets and
\* the sandbox environment are as before.
C18_EnhanceFrame ==
    /\ [](\A i \in 1..Len(calls) :
            LET c == calls[i]
                key == Key(c.error)
            IN /\ c.ec_after[key] = Count(c.ec_before, key) + 1
               /\ DOMAIN c.ec_after = DOMAIN c.ec_before \cup {key}
               /\ \A k \in DOMAIN c.ec_before : k # key => c.ec_after[k] = c.ec_before[k]
               /\ (i = Len(calls) => error_count = c.ec_after))
    /\ [][/\ history' = history
          /\ parameters' = parameters
          /\ installed_packages' = installed_packages
          /\ sandbox' = sandbox]_vars

C18_Witness ==
    /\ Len(calls) = 3
    /\ Key(calls[1].error) = Key(calls[2].error)
    /\ calls[1].error # calls[2].error
    /\ Key(calls[3].error) # Key(calls[1].error)
    /\ error_count[Key(calls[1].error)] = 2
    /\ error_count[Key(calls[3].error)] = 1

\* C19: the text enhance_error returns starts with the recurrence header
\* exactly when the count of the error's key after the increment is greater
\* than 1, and the number the header shows is that count.
C19_RecurrenceHeader ==
    \A i \in 1..Len(calls) :
        LET c == calls[i]
            n == c.ec_after[Key(c.error)]
        IN /\ (c.text[1] = "WARNING") <=> (n > 1)
           /\ n > 1 => c.text = <<"WARNING", NumWord(n), "times", "fix">> \o c.error.msg
                                    \o <<c.source.content>>
           /\ n <= 1 => c.text = <<c.source.content>>

C19_Witness ==
    /\ Len(calls) = 3
    /\ calls[1].text[1] # "WARNING"
    /\ calls[2].text[1] = "WARNING" /\ calls[2].text[2] = "2"
    /\ calls[3].text[1] = "WARNING" /\ calls[3].text[2] = "3"
    /\ calls[2].error # calls[3].error

\* C20: the options of the first generation call of every requirement are the
\* defaults (temperature 1, top_p 0.9, top_k 50), whatever was counted and
\* whatever options were sent in the requirements before it.
C20_FirstCallDefaults ==
    \A i \in DOMAIN options_sent :
        options_sent[i] # <<>> => options_sent[i][1] = DefaultParameters

C20_Witness ==
    /\ Len(options_sent) = 2
    /\ Len(options_sent[1]) = 3
    /\ options_sent[1][3].temperature > DefaultParameters.temperature
    /\ options_sent[1][3].top_p > DefaultParameters.top_p
    /\ options_sent[1][3].top_k > DefaultParameters.top_k
    /\ options_sent[2] # <<>>
    /\ options_sent[2][1] = DefaultParameters

\* the three generation parameters
Fields == {"temperature", "top_p", "top_k"}

\* C21: while the counts of one requirement loop only grow, every call of
\* get_next_parameters leaves each of temperature, top_p and top_k at least
\* as high as it was, and temperature <= 2, top_p <= 0.98 and top_k <= 100
\* hold in every state, however high the highest count is.
C21_MonotonicParameters ==
    /\ \A f \in Fields : parameters[f] <= Ceilings[f]
    /\ \A i \in 1..Len(calls) :
          \A f \in Fields : /\ calls[i].before[f] <= calls[i].after[f]
                            /\ calls[i].after[f] <= Ceilings[f]

C21_Witness ==
    /\ calls # <<>>
    /\ calls[1].m = MaxTuned
    /\ calls[1].after = Ceilings
    /\ \A f \in Fields : calls[1].before[f] < calls[1].after[f]

\* C22: with m the highest count (0 when nothing is counted), every
\* generation call made while m <= 1, in a requirement loop or in the
\* combination pass, is made with the default parameters.  A requirement
\* loop calls get_next_parameters just before the call (line 690); the
\* combination pass sends self.parameters as they are (line 248).
C22_DefaultsWhileLow ==
    MaxCount(error_count) <= 1 =>
        /\ pc = "generate" => get_next_parameters(parameters, error_count) = DefaultParameters
        /\ pc = "c_generate" => parameters = DefaultParameters

\* the keys counted during failed attempt j of the requirement in progress
CountedIn(j) ==
    {k \in DOMAIN failed_as[j].counts :
        failed_as[j].counts[k] > (IF j = 1 THEN 0 ELSE Count(failed_as[j - 1].counts, k))}

\* C23: when the first three attempts of a requirement fail with the same
\* normalized key, then right after the third failure the count of that key
\* is 3 and each of temperature, top_p and top_k is strictly greater than it
\* was after the first attempt.
C23_ThreeSameFailures ==
    (/\ Len(failed_as) = 3
     /\ pc \in {"req_end", "generate"}
     /\ Len(options_sent[requirement_index]) = 3)
    => \A k \in CountedIn(1) \cap CountedIn(2) \cap CountedIn(3) :
          /\ Count(error_count, k) = 3
          /\ \A f \in Fields : parameters[f] > options_sent[requirement_index][1][f]

C23_Witness ==
    /\ Len(failed_as) = 3
    /\ pc = "req_end"
    /\ \E k \in CountedIn(1) \cap CountedIn(2) \cap CountedIn(3) :
          /\ k # failed_as[1].key
          /\ Count(error_count, k) = 3
    /\ options_sent[requirement_index][1] = DefaultParameters
    /\ parameters = [temperature |-> 12, top_p |-> 91, top_k |-> 70]

\* a line number as a message shows it: a number, with what is attached to it
LineNumbers == {"3", "7", "3,", "7,"}
Attached(w) == IF w \in {"3,", "7,"} THEN "," ELSE ""

\* a and b are the same message up to the line numbers that follow "line"
SameButLineNumbers(a, b) ==
    /\ Len(a) = Len(b)
    /\ \A i \in 1..Len(a) :
          \/ a[i] = b[i]
          \/ /\ i > 1 /\ a[i - 1] \in LineWords /\ b[i - 1] = a[i - 1]
             /\ a[i] \in LineNumbers /\ b[i] \in LineNumbers
             /\ Attached(a[i]) = Attached(b[i])

\* C24: two messages of one error type that are identical except for the
\* embedded line numbers get the same signature from _normalize_error, and
\* two messages that differ in anything else get different signatures.
C24_SignatureStability ==
    \A i \in 1..Len(calls) :
        LET c == calls[i]
        IN IF SameButLineNumbers(c.a, c.b) THEN c.sig_a = c.sig_b
           ELSE c.sig_a # c.sig_b

\* the states of a requirement loop in which prompts_sent is that loop's
InLoop == pc \in LoopPcs \cup {"req_end"}

\* C25: every prompt asks for a fenced code block, the prompt of attempt 0
\* shows no previous attempt even when history holds attempts of earlier
\* requirements, and the prompt of every later attempt shows the last entry
\* of history, which is the recorded failure of the attempt just before it.
C25_FailureFeedback ==
    /\ [](InLoop =>
            \A k \in 1..Len(prompts_sent) :
                /\ prompts_sent[k].fenced
                /\ k = 1 => prompts_sent[k].previous = <<>>
                /\ k > 1 => /\ Len(prompts_sent[k].previous) = 1
                            /\ prompts_sent[k].previous[1].owner = <<requirement_index, k - 2>>
                            /\ prompts_sent[k].previous[1].error = "Failure")
    /\ [][(pc = "generate") /\ attempt > 0 =>
            /\ history # <<>>
            /\ Last(prompts_sent').previous = <<Last(history)>>]_vars

C25_Witness ==
    /\ InLoop
    /\ requirement_index = 2
    /\ attempts_made[1] >= 1
    /\ history # <<>>
    /\ Len(prompts_sent) = 3
    /\ prompts_sent[1].previous = <<>>
    /\ prompts_sent[3].previous[1].owner = <<2, 1>>

\* the attempt in progress got a response from which no code was extracted
EmptyExtraction == pc \in LoopPcs /\ trace # <<>> /\ trace[1] = <<"generate", "empty">>

\* C26: an attempt whose extracted code is empty fails at once: static
\* analysis, the installer and the execution are not invoked for it, it is
\* recorded as a Failure in history, and it uses up one attempt of the
\* requirement's budget.
C26_EmptyExtractionFails ==
    /\ [](EmptyExtraction => pc = "failed" /\ Len(trace) = 1 /\ code.content = ""
                              /\ attempts_made[requirement_index] = attempt + 1)
    /\ [][(pc = "generate") /\ code'.content = "" /\ code'.owner = Here
            => EmptyExtraction' /\ installer_calls' = installer_calls]_vars
    /\ [][EmptyExtraction =>
            /\ recorded' = recorded + 1
            /\ installer_calls' = installer_calls
            /\ history' # <<>>
            /\ Last(history').error = "Failure"
            /\ Last(history').owner = Here
            /\ Last(history').code.content = ""
            /\ IF LastAttempt(attempt, max_attempts)
               THEN pc' = "req_end"
               ELSE pc' = "generate" /\ attempt' = attempt + 1]_vars

C26_Witness ==
    /\ pc = "generate"
    /\ attempt = 1
    /\ installer_calls = 0
    /\ history # <<>>
    /\ Last(history).error = "Failure"
    /\ Last(history).owner = <<requirement_index, 0>>
    /\ Last(history).code.content = ""

\* the functions of a block as written: a def line with the lines after it,
\* up to the next def line; import lines are left out of the body
RECURSIVE FunctionsOf(_, _)
FunctionsOf(lines, current) ==
    IF lines = <<>> THEN (IF current # <<>> THEN {current} ELSE {})
    ELSE IF Head(lines) \in DefLines
    THEN (IF current # <<>> THEN {current} ELSE {}) \cup FunctionsOf(Tail(lines), <<Head(lines)>>)
    ELSE IF current # <<>> /\ Head(lines) \notin ImportLines
    THEN FunctionsOf(Tail(lines), Append(current, Head(lines)))
    ELSE FunctionsOf(Tail(lines), current)

\* part occurs in whole as a run of consecutive lines
OccursIn(part, whole) ==
    \E k \in 0..(Len(whole) - Len(part)) : \A i \in 1..Len(part) : whole[k + i] = part[i]

\* C27: for a response with fenced blocks, every import line of any block is
\* in the returned text exactly once and before every other line of code, and
\* every function of any block is there with all its body lines in their
\* order; a response without a fenced block is returned as it is, trimmed.
C27_ExtractionContract ==
    \A n \in 1..Len(calls) :
        LET r == calls[n].response
            ret == calls[n].ret
        IN IF r.blocks = <<>> THEN ret = <<Strip(r.text)>>
           ELSE \A b \in 1..Len(r.blocks) :
                  /\ \A j \in 1..Len(r.blocks[b]) :
                        r.blocks[b][j] \in ImportLines =>
                          /\ Cardinality({i \in 1..Len(ret) : ret[i] = r.blocks[b][j]}) = 1
                          /\ \A i, k \in 1..Len(ret) :
                                ret[i] = r.blocks[b][j] /\ ret[k] \in DefLines \cup BodyLines
                                => i < k
                  /\ \A f \in FunctionsOf(r.blocks[b], <<>>) : OccursIn(f, ret)

\* C28: a candidate is blocked by static analysis exactly when one of its
\* findings has severity error or warning or is a security issue; a
\* candidate with findings of lower severity only goes on to install.
C28_BlockingCriterion ==
    \A n \in 1..Len(calls) :
        calls[n].op = "analyze_code" /\ calls[n].next # "SystemExit" =>
            LET f == FindingsIn(calls[n].source)
                serious == f.pylint \cap {"fatal", "error", "warning"} # {} \/ f.bandit > 0
            IN /\ calls[n].next = "blocked" <=> serious
               /\ ~serious => calls[n].next = "install"

\* C31: in every analysis, the temporary file holding the candidate is in
\* place when pylint is run on it and when bandit is run on it, and it is
\* removed only after both have run.
C31_BothAnalyzersSeeFile ==
    \A n \in 1..Len(calls) :
        calls[n].op = "analyze_code" =>
            LET ev == calls[n].events
            IN \A i \in 1..Len(ev) :
                  /\ ev[i].tool \in {"pylint", "bandit"} => calls[n].source \in ev[i].files
                  /\ ev[i].tool = "os.unlink" =>
                        \A j \in 1..Len(ev) : ev[j].tool \in {"pylint", "bandit"} => j < i

\* C32: whenever enhance_error writes static-analysis findings into a text,
\* the findings it holds were produced by analysing that same text, also
\* after reset_tracking and after an analysis that failed.
C32_FindingsOfSameText ==
    \A n \in 1..Len(calls) :
        calls[n].op = "enhance_error"
        /\ (calls[n].annotated.pylint # {} \/ calls[n].annotated.bandit > 0)
        => calls[n].from = calls[n].source

\* the positions inside one attempt iteration, after its generation call
IterationPcs == {"analyze", "install", "execute", "success", "failed",
                 "c_analyze", "c_install", "c_execute", "c_success", "c_failed"}

InstalledTwice ==
    \E i, j \in 1..Len(calls) :
        /\ i < j
        /\ calls[i].op = "pip" /\ calls[j].op = "pip"
        /\ calls[i].ret = 0
        /\ calls[i].packages \cap calls[j].packages # {}

\* every enhance_error call has returned, and the count is below their number
IncrementLost ==
    /\ \A t \in Loops : loops[t].pc = "idle"
    /\ Count(error_count, Key(SharedError))
          < Cardinality({n \in 1..Len(calls) : calls[n].op = "enhance_error"})

\* C34: loops that share one handler and run together can corrupt its state
\* (the same dependency installed twice, an ErrorCount increment lost); as
\* long as no call of one loop begins while another loop is inside a call,
\* neither happens.
C34_UnsafeWhenShared ==
    (\A n \in 1..Len(calls) : calls[n].alone) => ~InstalledTwice /\ ~IncrementLost

C34_Witness ==
    /\ InstalledTwice
    /\ IncrementLost
    /\ installed_packages # {}

\* C35: when a requirement has used up its attempts and no code was ever
\* extracted in the run, the run returns None and the combination pass is
\* never invoked; with max_attempts = 0 the run returns None without a
\* generation call.
C35_NothingExtracted ==
    /\ pc = "req_end" /\ code = Unbound => ~requirement_success
    /\ pc \in CombinePcs \cup {"combine_call"} => code # Unbound
    /\ pc = "done" /\ code_requirements # <<>> /\ (code = Unbound \/ max_attempts = 0) =>
          /\ result = "None"
          /\ combine_input = <<>>
          /\ max_attempts = 0 => gen_calls = 0

C35_Witness ==
    /\ pc = "done"
    /\ code = Unbound
    /\ max_attempts > 1
    /\ gen_calls = max_attempts
    /\ attempts_made = <<max_attempts>> \/ attempts_made = <<max_attempts, 0>>
    /\ result = "None"

\* C36: when analyze_code fails and returns the error dictionary, the
\* candidate is not blocked, the attempt goes on to install, and the findings
\* retained before the call are still the ones retained after it.
C36_FailOpen ==
    \A n \in 1..Len(calls) :
        calls[n].op = "analyze_code" /\ calls[n].next # "SystemExit" /\ calls[n].ret.error =>
            /\ calls[n].next = "install"
            /\ calls[n].after = calls[n].before

C36_Witness ==
    \E n \in 1..Len(calls) :
        /\ calls[n].op = "analyze_code"
        /\ calls[n].outcome \in {"raises", "object"}
        /\ calls[n].ret.error
        /\ calls[n].next = "install"
        /\ calls[n].before.set /\ calls[n].before.pylint # {}
        /\ static_analysis_results = calls[n].before

\* C37: within one requirement's loop, each failed attempt adds exactly 1 to
\* the total of ErrorCount whichever stage failed: after k failed attempts
\* the total is k, and the largest count is at most k.
C37_OneCountPerFailure ==
    pc \in {"generate", "req_end"} =>
        /\ Total(error_count) = Len(failed_as)
        /\ MaxCount(error_count) <= Len(failed_as)

\* the attempt in progress has failed in generation or with empty code
ExtractionFailed == pc = "failed" /\ Len(trace) = 1 /\ trace[1][2] \in GenFaults

\* C38: an attempt that fails on an unusable response or on empty extracted
\* code is counted by enhance_error in the failure handler, once, under the
\* key of its error; when two attempts of a requirement have failed that way
\* under one key, the highest count exceeds 1 and the next generation call is
\* made with each parameter above its default.
C38_ExtractionFailuresCounted ==
    /\ [][ExtractionFailed =>
            /\ Count(error_count', Key(exc)) = Count(error_count, Key(exc)) + 1
            /\ Total(error_count') = Total(error_count) + 1
            /\ Last(failed_as').key = Key(exc)]_vars
    /\ []((/\ pc \in ReqPcs
           /\ Len(failed_as) >= 2
           /\ failed_as[1].key = failed_as[2].key
           /\ Total(failed_as[2].counts) = 2)
          => /\ MaxCount(error_count) > 1
             /\ Len(options_sent[requirement_index]) > 2 =>
                   \A f \in Fields :
                       options_sent[requirement_index][3][f] > DefaultParameters[f])

C38_Witness ==
    /\ pc = "analyze"
    /\ Len(failed_as) = 2
    /\ failed_as[1].key = Key(Exc("ValueError", <<"generated", "code", "is", "empty">>))
    /\ failed_as[2].key = failed_as[1].key
    /\ Count(error_count, failed_as[1].key) = 2
    /\ Len(options_sent[requirement_index]) = 3
    /\ options_sent[requirement_index][2] = DefaultParameters
    /\ \A f \in Fields : options_sent[requirement_index][3][f] > DefaultParameters[f]

\* C39: the output stored in a recorded attempt was captured by that
\* attempt's own install or execute step; an attempt that failed before
\* install is recorded without output.
C39_OutputIsOwn ==
    \A i \in 1..Len(history) :
        history[i].stdout = NoOutput \/ history[i].stdout.owner = history[i].owner

\* C29: an attempt recorded while history holds a previous attempt has its
\* diff_from_previous set to a diff between the previous code and its own.
C29_DiffRecorded ==
    \A i \in 2..Len(history) : history[i].diff_from_previous # "None"

\* C30: every block of combined_code, a forced acceptance included, is the
\* code extracted from the latest generation response of the requirement it
\* was accepted for: never code of an earlier requirement, nor of an earlier
\* attempt of the same requirement.
C30_AcceptedCodeIsOwn ==
    \A k \in 1..Len(combined_code) :
        k <= Len(accepted_for) =>
            combined_code[k].owner = <<accepted_for[k], attempts_made[accepted_for[k]] - 1>>

====
